---- MODULE Spec2Model ----
(***************************************************************************)
(* State synchronization core of deebot_t8: the per-device state snapshot  *)
(* (VacuumState), the reconciler (DeebotEntity.handle_mqtt_message /       *)
(* handle_command / exc_command), the observer registry and poll task of   *)
(* DeebotEntity, and the broker connection manager (SubscriptionClient).   *)
(*                                                                         *)
(* Spec      one entity, operations applied one after another (the         *)
(*           reconciler's field-update rules).                             *)
(* SpecLife  several entities on one SubscriptionClient, with caller       *)
(*           threads, the broker network thread and the poll tasks         *)
(*           interleaved at the source's call boundaries.                  *)
(* SpecPoll  entities that start with observers and a running poll task;   *)
(*           the poll tasks and detach calls interleave, and every poll    *)
(*           task is scheduled fairly (a thread that can step does step).  *)
(* SpecAuth  threads calling Authenticator.authenticate while the clock    *)
(*           advances.                                                     *)
(* SpecLock  attach and detach calls that step at each lock request, with  *)
(*           a thread that calls Authenticator.authenticate directly.      *)
(* SpecSet   one entity whose water level and suction speed are set and    *)
(*           then reported back by the device.                             *)
(***************************************************************************)
EXTENDS Integers, Sequences, FiniteSets, TLC

\* ------------------------------------------------------------------------
\* Bounds
\* ------------------------------------------------------------------------

\* Number of reconciler operations applied in one behaviour of Spec.
MaxEvents == 2

\* Attach/detach calls, broker messages, poll cycles and connection losses
\* in one behaviour of SpecLife.
MaxCalls == 3
MaxMsgs == 1
MaxPolls == 1
MaxDrops == 1

\* Poll cycles in one behaviour of SpecPoll.
MaxCycles == 2

\* authenticate calls in one behaviour of SpecAuth, and the last value of
\* its clock.
MaxAuthCalls == 3
MaxNow == 3

\* Direct calls of authenticate in one behaviour of SpecLock.
MaxRequests == 1

Devices == {"d1", "d2"}
Handlers == {"h1", "h2"}

\* The entity Spec exercises.
RecDevice == "d1"

\* ------------------------------------------------------------------------
\* VacuumState (entity.py 38-96)
\* ------------------------------------------------------------------------

\* Python's None and a present value v.
None == <<>>
Some(v) == <<v>>

Fields == {"is_online", "firmware_version", "hardware_version", "state",
           "clean_type", "clean_stats", "battery_level", "is_charging",
           "mop_attached", "water_level", "vacuum_speed", "clean_count",
           "cleaning_preference_enabled", "true_detect_enabled",
           "auto_boost_suction_enabled", "auto_empty_enabled", "lifespan",
           "total_stats"}

\* VacuumState(is_online = device.status == 1): every other field defaults
\* to None.
VacuumState(online) == [f \in Fields |-> IF f = "is_online" THEN Some(online) ELSE None]

\* DeebotEntity.__init__ installs state._on_change = self._handle_state_change
\* and nothing ever clears it.
on_change_installed == TRUE

\* Mutant of VacuumState_setattr: a setter that only fills a field that holds
\* nothing yet.
VacuumState_setattr_fill(st, key, value) ==
  LET stored == IF st[key] = None THEN [st EXCEPT ![key] = value] ELSE st
  IN [state  |-> stored,
      logged |-> (stored[key] # value),
      notify |-> on_change_installed]

\* VacuumState.__setattr__(key, value): the value is stored first; the debug
\* line compares the attribute just stored with the value; the change
\* callback is invoked whenever one is installed.
VacuumState_setattr(st, key, value) ==
  LET stored == [st EXCEPT ![key] = value]
  IN [state  |-> stored,
      logged |-> (stored[key] # value),
      notify |-> on_change_installed]

\* ------------------------------------------------------------------------
\* Reconciler: the writes an event performs (entity.py 152-368)
\* ------------------------------------------------------------------------

W(k, v) == [key |-> k, value |-> v]

\* The outcome of a handler: the attribute writes it performs, in order, and
\* the exception that ends it ("none" when it returns).
Done(ws) == [writes |-> ws, raised |-> "none"]
Raise(ws, exc) == [writes |-> ws, raised |-> exc]

\* bool(x) of a wire integer.
Bool(x) == x # 0

\* json.loads of a text: a text is either well-formed, and then carries the
\* value it parses to, or not.
json_loads(text) ==
  IF text.wellformed THEN [ok |-> TRUE, value |-> text.value]
  ELSE [ok |-> FALSE]

\* entity.py 204-209: onFwBuryPoint::bd_setting water amounts, 0-based.
water_flow_map_bury == (0 :> "LOW" @@ 1 :> "MEDIUM" @@ 2 :> "HIGH" @@ 3 :> "ULTRA_HIGH")

\* Mutant of water_flow_map_info: the amounts are taken as 0-based.
water_flow_map_info_zero ==
  (0 :> "LOW" @@ 1 :> "MEDIUM" @@ 2 :> "HIGH" @@ 3 :> "ULTRA_HIGH")

\* entity.py 257-262: onWaterInfo water amounts, 1-based.
water_flow_map_info == (1 :> "LOW" @@ 2 :> "MEDIUM" @@ 3 :> "HIGH" @@ 4 :> "ULTRA_HIGH")

\* entity.py 219-224
speed_map_in == (1000 :> "QUIET" @@ 0 :> "STANDARD" @@ 1 :> "MAX" @@ 2 :> "MAX_PLUS")

\* entity.py 177-185 and 242-250: the clean type named on the wire.
CleanTypeWrites(typ) ==
  IF typ = "auto" THEN <<W("clean_type", Some("AUTO"))>>
  ELSE IF typ = "spotArea" THEN <<W("clean_type", Some("SPOT_AREA"))>>
  ELSE IF typ = "customArea" THEN <<W("clean_type", Some("CUSTOM_AREA"))>>
  ELSE <<>>

\* entity.py 163-192
OnCleanInfo_V2(data) ==
  IF data.state = "clean" THEN
    LET motion_state == data.cleanState.motionState
        clean_type == data.cleanState.content.type
        w1 == IF motion_state = "working" THEN <<W("state", Some("CLEANING"))>>
              ELSE IF motion_state = "pause" THEN <<W("state", Some("PAUSED"))>>
              ELSE <<>>
    IN Done(w1 \o CleanTypeWrites(clean_type))
  ELSE IF data.state = "idle" THEN
    Done(<<W("state", Some("IDLE")), W("clean_type", None)>>)
  ELSE IF data.state = "goCharging" THEN
    Done(<<W("state", Some("RETURNING")), W("clean_type", None)>>)
  ELSE Done(<<>>)

\* entity.py 195-217
OnFwBuryPoint(data) ==
  LET parsed == json_loads(data.content) IN
  IF ~parsed.ok THEN Raise(<<>>, "JSONDecodeError")
  ELSE LET cmd_payload == parsed.value IN
    IF cmd_payload.rn = "bd_setting" THEN
      LET inner == json_loads(cmd_payload.d.body.data.d_val) IN
      IF ~inner.ok THEN Raise(<<>>, "JSONDecodeError")
      ELSE LET cmd_data == inner.value IN
        IF cmd_data.waterAmount \notin DOMAIN water_flow_map_bury
        THEN Raise(<<>>, "KeyError")
        ELSE Done(<<W("water_level", Some(water_flow_map_bury[cmd_data.waterAmount])),
                    W("auto_boost_suction_enabled", Some(Bool(cmd_data.isPressurized)))>>)
    ELSE Done(<<>>)

\* entity.py 226-250
OnStats(data) ==
  Done(<<W("clean_stats", Some([area |-> data.area, time |-> data.time,
                                avoid_count |-> data.avoidCount,
                                start_time |-> data.start]))>>
       \o CleanTypeWrites(data.type))

\* entity.py 253-263
OnWaterInfo(data) ==
  LET w1 == <<W("mop_attached", Some(Bool(data.enable)))>> IN
  IF data.amount \notin DOMAIN water_flow_map_info THEN Raise(w1, "KeyError")
  ELSE Done(w1 \o <<W("water_level", Some(water_flow_map_info[data.amount]))>>)

\* entity.py 264-301: commands that are recognised and deliberately ignored.
IgnoredCommands == {"reportStats", "onBreakPointStatus", "onCachedMapInfo",
                    "reportMinorMap", "reportPos", "reportMapTrace",
                    "reportMapSubSet", "onError", "onEvt", "onMajorMap",
                    "onMapSet", "onMapState", "onMapTrace", "onMinorMap",
                    "onPos", "onRelocationState", "onRosNodeReady",
                    "onSched_V2"}

\* DeebotEntity.handle_mqtt_message(command, body)
handle_mqtt_message(command, body) ==
  IF "data" \notin DOMAIN body THEN Raise(<<>>, "KeyError")
  ELSE LET data == body.data IN
    CASE command = "onBattery" -> Done(<<W("battery_level", Some(data.value))>>)
      [] command = "onChargeState" -> Done(<<W("is_charging", Some(Bool(data.isCharging)))>>)
      [] command = "onCleanCount" -> Done(<<W("clean_count", Some(data.count))>>)
      [] command = "onCleanInfo_V2" -> OnCleanInfo_V2(data)
      [] command = "onCleanPreference" ->
           Done(<<W("cleaning_preference_enabled", Some(Bool(data.enable)))>>)
      [] command = "onFwBuryPoint" -> OnFwBuryPoint(data)
      [] command = "onSpeed" ->
           IF data.speed \notin DOMAIN speed_map_in THEN Raise(<<>>, "KeyError")
           ELSE Done(<<W("vacuum_speed", Some(speed_map_in[data.speed]))>>)
      [] command = "onStats" -> OnStats(data)
      [] command = "onTrueDetect" -> Done(<<W("true_detect_enabled", Some(Bool(data.enable)))>>)
      [] command = "onWaterInfo" -> OnWaterInfo(data)
      [] command \in IgnoredCommands -> Done(<<>>)
      [] OTHER -> Done(<<>>)

\* Mutant of MqCommand: getTrueDetect and getCleanPreference are routed to
\* each other's push routine.
MqCommand_swapped ==
  ("getBattery" :> "onBattery" @@ "getChargeState" :> "onChargeState" @@
   "getCleanCount" :> "onCleanCount" @@ "getCleanInfo_V2" :> "onCleanInfo_V2" @@
   "getCleanPreference" :> "onTrueDetect" @@ "getError" :> "onError" @@
   "getSpeed" :> "onSpeed" @@ "getStats" :> "onStats" @@
   "getTrueDetect" :> "onCleanPreference" @@ "getWaterInfo" :> "onWaterInfo")

\* entity.py 332-346: the commands answered on both channels, and
\* 'on' + command.lstrip('get') for each of them (lstrip removes leading
\* characters g, e, t; every name continues with an upper-case letter, so
\* exactly the prefix "get" goes).
MqCommand == ("getBattery" :> "onBattery" @@ "getChargeState" :> "onChargeState" @@
              "getCleanCount" :> "onCleanCount" @@ "getCleanInfo_V2" :> "onCleanInfo_V2" @@
              "getCleanPreference" :> "onCleanPreference" @@ "getError" :> "onError" @@
              "getSpeed" :> "onSpeed" @@ "getStats" :> "onStats" @@
              "getTrueDetect" :> "onTrueDetect" @@ "getWaterInfo" :> "onWaterInfo")

\* A reply header: Python's None, or a dictionary.
NoHeader == [isNone |-> TRUE]

\* entity.py 320-323
HeaderWrites(header) ==
  (IF "isNone" \notin DOMAIN header /\ "fwVer" \in DOMAIN header
   THEN <<W("firmware_version", Some(header.fwVer))>> ELSE <<>>)
  \o
  (IF "isNone" \notin DOMAIN header /\ "hwVer" \in DOMAIN header
   THEN <<W("hardware_version", Some(header.hwVer))>> ELSE <<>>)

\* The writes ws followed by the outcome r.
After(ws, r) == [writes |-> ws \o r.writes, raised |-> r.raised]

\* entity.py 357-361
LifeSpanList(data) ==
  [i \in 1..Len(data) |-> [component |-> data[i].type, total |-> data[i].total,
                           left |-> data[i].left]]

RECURSIVE handle_command(_, _, _)
RECURSIVE GetInfoItems(_, _)

\* entity.py 348-350: for key, value in data.items(): handle_command(key,
\* value, None).  data is the reply's dictionary in its own order, a sequence
\* of key/value entries; an exception ends the loop.
GetInfoItems(items, i) ==
  IF i > Len(items) THEN Done(<<>>)
  ELSE LET r == handle_command(items[i].key, items[i].value, NoHeader) IN
    IF r.raised # "none" THEN r
    ELSE After(r.writes, GetInfoItems(items, i + 1))

\* DeebotEntity.handle_command(command, resp, header)
handle_command(command, resp, header) ==
  LET hw == HeaderWrites(header) IN
  IF "data" \notin DOMAIN resp THEN Done(hw)
  ELSE LET data == resp.data IN
    CASE command \in DOMAIN MqCommand ->
           After(hw, handle_mqtt_message(MqCommand[command], resp))
      [] command = "getInfo" -> After(hw, GetInfoItems(data, 1))
      [] command = "getTotalStats" ->
           Done(hw \o <<W("total_stats", Some([area |-> data.area, time |-> data.time,
                                               count |-> data.count]))>>)
      [] command = "getLifeSpan" -> Done(hw \o <<W("lifespan", Some(LifeSpanList(data)))>>)
      [] command = "getCarpertPressure" ->
           Done(hw \o <<W("auto_boost_suction_enabled", Some(Bool(data.enable)))>>)
      [] command = "getAutoEmpty" ->
           Done(hw \o <<W("auto_empty_enabled", Some(Bool(data.enable)))>>)
      [] OTHER -> Done(hw)

\* Mutant of exc_command: the entity goes offline at the first failure.
exc_command_first(count, outcome) ==
  IF outcome = "ApiError" THEN
    [count |-> count + 1, writes |-> <<W("is_online", Some(FALSE))>>, raised |-> "ApiError"]
  ELSE IF outcome = "ok" THEN
    [count |-> 0, writes |-> <<W("is_online", Some(TRUE))>>, raised |-> "none"]
  ELSE [count |-> count, writes |-> <<>>, raised |-> outcome]

\* DeebotEntity.exc_command(command, data), given how ApiClient.exc_command
\* ended: "ok" (a reply), "ApiError" (ApiErrorException) or "OtherError" (any
\* other exception, which the except clause does not catch).  count is the
\* value of _err_count after the call.
exc_command(count, outcome) ==
  IF outcome = "ApiError" THEN
    [count |-> count + 1,
     writes |-> IF count + 1 >= 2 THEN <<W("is_online", Some(FALSE))>> ELSE <<>>,
     raised |-> "ApiError"]
  ELSE IF outcome = "ok" THEN
    [count |-> 0, writes |-> <<W("is_online", Some(TRUE))>>, raised |-> "none"]
  ELSE [count |-> count, writes |-> <<>>, raised |-> outcome]

\* Mutant of set_auto_empty: the field is stored before the command is
\* sent.
set_auto_empty_eager(count, outcome, enabled) ==
  LET r == exc_command(count, outcome) IN
  [count |-> r.count,
   writes |-> <<W("auto_empty_enabled", Some(enabled))>> \o r.writes,
   raised |-> r.raised]

\* DeebotEntity.set_auto_empty(enabled) (entity.py 427-433), given how the
\* command ended: exc_command('setAutoEmpty', ...), and when it returns
\* self.state.auto_empty_enabled = enabled.
set_auto_empty(count, outcome, enabled) ==
  LET r == exc_command(count, outcome) IN
  [count |-> r.count,
   writes |-> IF r.raised = "none"
              THEN r.writes \o <<W("auto_empty_enabled", Some(enabled))>>
              ELSE r.writes,
   raised |-> r.raised]

\* ------------------------------------------------------------------------
\* Inputs: events on the wire
\* ------------------------------------------------------------------------

Ev(cmd, data) == [command |-> cmd, body |-> [data |-> data]]

\* A JSON text that parses to v, and one that does not parse.
Json(v) == [wellformed |-> TRUE, value |-> v]
Garbage == [wellformed |-> FALSE]

BurySetting(amount, pressurized) ==
  Json([rn |-> "bd_setting",
        d |-> [body |-> [data |-> [d_val |-> Json([waterAmount |-> amount,
                                                   isPressurized |-> pressurized])]]]])

CleanInfoClean(motion, typ) ==
  [state |-> "clean", cleanState |-> [motionState |-> motion, content |-> [type |-> typ]]]

StatsData(typ) == [area |-> 10, time |-> 61, avoidCount |-> 0, start |-> 1624877304, type |-> typ]

\* Bodies of the commands that exist on both channels, by push name.
SharedEvents ==
  {Ev("onBattery", [value |-> v]) : v \in {50, 80}}
  \cup {Ev("onChargeState", [isCharging |-> b]) : b \in {0, 1}}
  \cup {Ev("onCleanCount", [count |-> 2])}
  \cup {Ev("onCleanInfo_V2", CleanInfoClean(m, t)) :
          m \in {"working", "pause", "goCharging"}, t \in {"auto", "spotArea", "move"}}
  \cup {Ev("onCleanInfo_V2", [state |-> s]) : s \in {"idle", "goCharging"}}
  \cup {Ev("onCleanPreference", [enable |-> 1])}
  \cup {Ev("onError", [code |-> 0])}
  \cup {Ev("onSpeed", [speed |-> v]) : v \in {1000, 0, 3}}
  \cup {Ev("onStats", StatsData(t)) : t \in {"auto", "customArea", "move"}}
  \cup {Ev("onTrueDetect", [enable |-> 0])}
  \cup {Ev("onWaterInfo", [enable |-> 1, amount |-> a]) : a \in {0, 1, 2, 4}}

\* Events delivered by the broker (handle_mqtt_message).
PushEvents ==
  SharedEvents
  \cup {[command |-> "onFwBuryPoint", body |-> [data |-> [content |-> c]]] :
          c \in {BurySetting(0, 1), BurySetting(1, 0), BurySetting(3, 0),
                 Json([rn |-> "bd_basicinfo"]), Garbage}}
  \cup {Ev("onPos", [x |-> 0]), Ev("onFutureThing", [x |-> 0])}
  \cup {[command |-> "onBattery", body |-> [code |-> 0]],
        [command |-> "onFutureThing", body |-> [code |-> 0]]}

ToGet == [c \in {MqCommand[g] : g \in DOMAIN MqCommand} |->
            CHOOSE g \in DOMAIN MqCommand : MqCommand[g] = c]

Headers == {NoHeader, [fwVer |-> "1.2.3", hwVer |-> "0.1.1"], [fwVer |-> "1.3.0"]}

InfoEntry(k, v) == [key |-> k, value |-> v]

\* The data of getInfo replies: entries in the reply's order.  The second
\* holds an unknown sub-command and one without data, the last a water
\* amount outside onWaterInfo's table.
InfoBatches ==
  {<<InfoEntry("getBattery", [data |-> [value |-> 80]]),
     InfoEntry("getChargeState", [data |-> [isCharging |-> 1]])>>,
   <<InfoEntry("getWaterInfo", [data |-> [enable |-> 1, amount |-> 2]]),
     InfoEntry("getFutureThing", [data |-> [x |-> 0]]),
     InfoEntry("getError", [code |-> 0]),
     InfoEntry("getSpeed", [data |-> [speed |-> 1]])>>,
   <<InfoEntry("getTotalStats", [data |-> [area |-> 100, time |-> 500, count |-> 7]]),
     InfoEntry("getAutoEmpty", [data |-> [enable |-> 1]]),
     InfoEntry("getCarpertPressure", [data |-> [enable |-> 0]])>>,
   <<InfoEntry("getWaterInfo", [data |-> [enable |-> 1, amount |-> 0]]),
     InfoEntry("getBattery", [data |-> [value |-> 50]])>>}

\* Replies applied by the poll path (handle_command): command, resp,
\* header.
PollEvents ==
  {[command |-> ToGet[e.command], resp |-> e.body, header |-> NoHeader] : e \in SharedEvents}
  \cup {[command |-> "getBattery", resp |-> [data |-> [value |-> 50]], header |-> h] :
          h \in Headers}
  \cup {[command |-> "getInfo", resp |-> [data |-> items], header |-> NoHeader] :
          items \in InfoBatches}
  \cup {[command |-> "getLifeSpan",
         resp |-> [data |-> <<[type |-> "brush", left |-> 90, total |-> 100]>>],
         header |-> NoHeader],
        [command |-> "getAutoEmpty", resp |-> [data |-> [enable |-> 0]], header |-> NoHeader],
        [command |-> "getFutureThing", resp |-> [data |-> [x |-> 0]], header |-> NoHeader],
        [command |-> "getBattery", resp |-> [code |-> 500], header |-> [fwVer |-> "1.2.3"]]}

\* How ApiClient.exc_command can end (api_client.py 54-92).
ExcOutcomes == {"ok", "ApiError", "OtherError"}

\* ------------------------------------------------------------------------
\* State
\* ------------------------------------------------------------------------

VARIABLES
  state,        \* DeebotEntity.state of each device's entity
  err_count,    \* DeebotEntity._err_count
  subscribers,  \* DeebotEntity._subscribers
  should_poll,  \* DeebotEntity._should_poll
  last,         \* history: the reconciler operation applied last
  written,      \* history: per field, the value of the most recent write
  exc_hist,     \* history: the last two outcomes of exc_command on
                \* RecDevice
  events,       \* history: number of reconciler operations applied
  entity_lock,  \* DeebotEntity._lock: the caller thread holding it
  sc_subscribers, \* SubscriptionClient._subscribers: the devices d with a
                \* record (d, handle_mqtt_message of d's entity)
  sc_lock,      \* SubscriptionClient._lock: the caller thread holding it
  client,       \* SubscriptionClient._client: NoClient or an index of mqtt
  mqtt,         \* the MQTTClient objects created so far
  caller,       \* the caller threads (attach and detach calls)
  net,          \* the broker network thread (paho loop): its callback
  tasks,        \* the poll tasks alive, per device
  done,         \* history: the attach/detach call that ended last
  fan,          \* history: the notification fan-out that ended last
  heard,        \* history: the broker callback that ended last
  polled,       \* history: the force_refresh of a poll task begun last
  budget,       \* history: calls, messages, poll cycles, drops so far, the
                \* attach calls per device, and the poll cycles followed
                \* (cycles)
  credentials,  \* Authenticator._credentials
  auth_lock,    \* Authenticator._lock: the thread holding it
  auth,         \* the threads that call Authenticator.authenticate
  clock,        \* time.time()
  auth_done     \* history: the authenticate call that ended last, and the
                \* numbers of calls and logins so far

recVars == <<state, err_count, subscribers, should_poll, last, written, exc_hist, events>>

lifeVars == <<entity_lock, sc_subscribers, sc_lock, client, mqtt, caller, net, tasks,
              done, fan, heard, polled, budget>>

authVars == <<credentials, auth_lock, auth, clock, auth_done>>

vars == <<recVars, lifeVars, authVars>>

\* A field no operation has written since construction: no entry point has
\* written it.
Unwritten == [srcs |-> {}, value |-> None]

NoOp == [op |-> "none", command |-> "-", log |-> <<>>, raised |-> "none"]

\* ------------------------------------------------------------------------
\* SubscriptionClient and the MQTT client (subscription_client.py)
\* ------------------------------------------------------------------------

\* Threads that call DeebotEntity.subscribe / unsubscribe.
Callers == {1, 2}

\* A lock nobody holds.
Free == 0

\* Which thread makes a call does not matter to the program: a call is made
\* by the first thread that is outside every call.
FirstIdle(t) == caller[t].pc = "idle" /\ \A u \in Callers : u < t => caller[u].pc # "idle"

\* SubscriptionClient._client = None
NoClient == 0

\* api_client.py 13-22: what the topic filter and the topic use of a device.
DeviceInfo(d) == [id |-> d, dev_class |-> "cls", resource |-> "res"]

\* A topic is the sequence of its '/'-separated levels.
TopicOf(command, d) ==
  <<"iot", "atr", command, DeviceInfo(d).id, DeviceInfo(d).dev_class,
    DeviceInfo(d).resource, "j">>

\* Levels that begin with the letter j.
StartsWithJ == {"j", "json"}

\* TOPIC_RE.match(topic): iot/atr/ then four non-empty levels (command,
\* device_id, device_cls, device_resource) then a level that begins with j;
\* match() anchors at the start only, so anything may follow.
TOPIC_RE_match(topic) ==
  IF /\ Len(topic) >= 7
     /\ topic[1] = "iot" /\ topic[2] = "atr"
     /\ \A i \in 3..6 : topic[i] # ""
     /\ topic[7] \in StartsWithJ
  THEN [matched |-> TRUE, command |-> topic[3], device_id |-> topic[4]]
  ELSE [matched |-> FALSE]

\* subscription_client.py 124-135: the filter _subscribe_topic issues.
DeviceFilter(dev) == <<"iot", "atr", "+", dev.id, dev.dev_class, dev.resource, "+">>

\* subscription_client.py 76: the filter "#".
CatchAll == <<"#">>

\* MQTT filter matching: + stands for one level, # for all that follow.
FilterMatches(filter, topic) ==
  \/ filter = CatchAll
  \/ /\ Len(filter) = Len(topic)
     /\ \A i \in 1..Len(filter) : filter[i] = "+" \/ filter[i] = topic[i]

\* An MQTTClient object.  status: "created" (constructed, connect() raised:
\* no socket, no loop thread), "connecting" (connect() returned and
\* loop_start() ran, or the loop is reconnecting; CONNACK pending),
\* "connected", "disconnected" (disconnect() called).  filters: the topic
\* filters issued on the current session.
MQTTClient(status) == [status |-> status, filters |-> {}]

\* paho Client.subscribe(topic): without a socket it returns
\* MQTT_ERR_NO_CONN and does nothing; otherwise the filter is sent.
client_subscribe(m, c, filter) ==
  IF m[c].status \in {"connecting", "connected"}
  THEN [m EXCEPT ![c].filters = @ \cup {filter}]
  ELSE m

\* subscription_client.py 105: self._client.is_connected is the bound method
\* itself, not its result: true of every client object.
client_is_connected(m, c) == TRUE

\* A caller thread and the network thread outside every call; a poll task
\* about to evaluate its loop condition; no call and no callback ended yet.
IdleCaller == [pc |-> "idle"]
IdleNet == [pc |-> "idle"]
Loop == [pc |-> "loop"]
NoCall == [op |-> "none", raised |-> "none"]
NoCallback == [cb |-> "none", raised |-> "none"]

\* The client objects that hold a connection or are about to.
LiveClients == {c \in DOMAIN mqtt : mqtt[c].status # "disconnected"}

\* ------------------------------------------------------------------------
\* Writes of a thread that runs beside others: the fan-out over the
\* observers is interleaved at each observer call (entity.py 90-96, 370-372)
\* ------------------------------------------------------------------------

NoFan == [dev |-> "-", key |-> "-", changed |-> FALSE, missed |-> {}, fresh |-> TRUE,
          ended |-> "none"]

\* The fan-out of frame f ends with `ended`: the observers attached when the
\* value was stored, still attached now and never called are missed.
FanEnd(f, obs, ended) ==
  [dev |-> f.dev, key |-> f.cur.key, changed |-> (f.old # f.cur.value),
   missed |-> (f.at_store \cap obs) \ f.visited, fresh |-> f.fresh, ended |-> ended]

RECURSIVE StoreAll(_, _)
\* The writes ws on st when no observer is attached: _handle_state_change
\* loops over nothing.
StoreAll(st, ws) ==
  IF ws = <<>> THEN st
  ELSE StoreAll(VacuumState_setattr(st, ws[1].key, ws[1].value).state, Tail(ws))

\* A thread begins the writes ws (to end with `raised`) on entity dev, whose
\* snapshot is st and whose observers are obs.  Up to the first observer
\* call nothing else runs: either every write is stored and the thread is
\* through (yield FALSE), or the first write is stored and the first
\* observer of the set iteration is being called (yield TRUE).
StartWrites(dev, ws, raised, st, obs, fanNow) ==
  IF ws = <<>> \/ obs = {} \/ ~on_change_installed
  THEN {[yield |-> FALSE, state |-> StoreAll(st, ws), raised |-> raised, fan |-> fanNow]}
  ELSE LET s1 == VacuumState_setattr(st, ws[1].key, ws[1].value).state IN
    {[yield |-> TRUE, state |-> s1, fan |-> fanNow,
      frame |-> [dev |-> dev, cur |-> ws[1], old |-> st[ws[1].key], at_store |-> obs,
                 visited |-> {h}, used |-> Cardinality(obs),
                 fresh |-> (s1[ws[1].key] = ws[1].value),
                 writes |-> Tail(ws), raised |-> raised]] : h \in obs}

\* The observer call of frame f returned: the set iterator checks the size
\* of the set (RuntimeError: Set changed size during iteration), then yields
\* the next observer, or ends, and the thread goes on to its next write.
ContinueWrites(f, st, obs) ==
  IF Cardinality(obs) # f.used
  THEN {[yield |-> FALSE, state |-> st, raised |-> "RuntimeError",
         fan |-> FanEnd(f, obs, "RuntimeError")]}
  ELSE IF obs \ f.visited # {}
  THEN {[yield |-> TRUE, state |-> st, fan |-> fan,
         frame |-> [f EXCEPT !.visited = @ \cup {h},
                             !.fresh = @ /\ (st[f.cur.key] = f.cur.value)]] :
          h \in obs \ f.visited}
  ELSE StartWrites(f.dev, f.writes, f.raised, st, obs, FanEnd(f, obs, "done"))

\* ------------------------------------------------------------------------
\* Applying writes with the observers notified at once (a single thread)
\* ------------------------------------------------------------------------

\* DeebotEntity._handle_state_change: every subscriber is called once.
handle_state_change(obs) == obs

RECURSIVE ApplyWrites(_, _, _)
\* self.state.<key> = value for each write in order.  The log keeps, per
\* write, the field, the value stored before and after, and the observers
\* called.
ApplyWrites(st, ws, obs) ==
  IF ws = <<>> THEN [state |-> st, log |-> <<>>]
  ELSE LET s1 == VacuumState_setattr(st, ws[1].key, ws[1].value)
           rest == ApplyWrites(s1.state, Tail(ws), obs)
           entry == [key |-> ws[1].key, old |-> st[ws[1].key], new |-> s1.state[ws[1].key],
                     value |-> ws[1].value,
                     called |-> IF s1.notify THEN handle_state_change(obs) ELSE {}]
       IN [state |-> rest.state, log |-> <<entry>> \o rest.log]

RECURSIVE LastWrites(_, _, _)
\* The value each field was last given by the writes ws of entry point name,
\* on top of w, and the entry points that have written the field.
LastWrites(w, ws, name) ==
  IF ws = <<>> THEN w
  ELSE LastWrites([w EXCEPT ![ws[1].key] = [srcs |-> @.srcs \cup {name},
                                           value |-> ws[1].value]],
                  Tail(ws), name)

\* One reconciler operation on entity d, for `command`, with outcome r.
Reconcile(d, name, command, r) ==
  LET a == ApplyWrites(state[d], r.writes, subscribers[d]) IN
  /\ events < MaxEvents
  /\ state' = [state EXCEPT ![d] = a.state]
  /\ written' = [written EXCEPT ![d] = LastWrites(@, r.writes, name)]
  /\ last' = [op |-> name, command |-> command, log |-> a.log, raised |-> r.raised]
  /\ events' = events + 1

\* The broker delivers an event to the entity's handler.
HandleMqttMessage ==
  \E ev \in PushEvents :
    /\ Reconcile(RecDevice, "handle_mqtt_message", ev.command,
                 handle_mqtt_message(ev.command, ev.body))
    /\ UNCHANGED <<err_count, subscribers, should_poll, exc_hist>>
    /\ UNCHANGED lifeVars
    /\ UNCHANGED authVars

\* A reply is applied through the poll entry point.
HandleCommand ==
  \E ev \in PollEvents :
    /\ Reconcile(RecDevice, "handle_command", ev.command,
                 handle_command(ev.command, ev.resp, ev.header))
    /\ UNCHANGED <<err_count, subscribers, should_poll, exc_hist>>
    /\ UNCHANGED lifeVars
    /\ UNCHANGED authVars

\* DeebotEntity.exc_command with each way the command executor can end.
ExcCommand ==
  \E outcome \in ExcOutcomes :
    LET r == exc_command(err_count[RecDevice], outcome) IN
    /\ Reconcile(RecDevice, "exc_command", "-", [writes |-> r.writes, raised |-> r.raised])
    /\ err_count' = [err_count EXCEPT ![RecDevice] = r.count]
    /\ exc_hist' = IF Len(exc_hist) < 2 THEN Append(exc_hist, outcome)
                   ELSE <<exc_hist[2], outcome>>
    /\ UNCHANGED <<subscribers, should_poll>>
    /\ UNCHANGED lifeVars
    /\ UNCHANGED authVars

\* ------------------------------------------------------------------------
\* Authenticator (auth_client.py 184-224)
\* ------------------------------------------------------------------------

\* Threads that call Authenticator.authenticate (through
\* ApiClient.exc_command and SubscriptionClient._connect).
AuthThreads == {1, 2}

\* auth_client.py 173: a login's credentials expire 2 days later; the clock
\* counts days.
TokenLife == 2

Credentials(access_token, expires_at) ==
  Some([access_token |-> access_token, expires_at |-> expires_at])

\* The CLI passes on_credentials_changed to the Authenticator.
on_credentials_changed_installed == TRUE

\* Mutant of should_login: credentials never count as expired.
should_login_stale(creds, force, now) == creds = None \/ force

\* auth_client.py 208-214
should_login(creds, force, now) ==
  IF creds = None \/ force THEN TRUE
  ELSE creds[1].expires_at < now

\* How DeebotAuthClient.login can end.
LoginOutcomes == {"ok", "InvalidCredentialsException", "ApiErrorException"}

\* DeebotAuthClient.login at time now: the n-th login's credentials, or the
\* exception.
DeebotAuthClient_login(outcome, n, now) ==
  IF outcome = "ok"
  THEN [raised |-> "none", credentials |-> Credentials(n, now + TokenLife)]
  ELSE [raised |-> outcome]

\* Mutant of authenticate_store: a failed login clears the credentials.
authenticate_store_clear(pre, r) ==
  IF r.raised = "none" THEN r.credentials ELSE None

\* auth_client.py 217-219: self._credentials = login(...); when login raises
\* the assignment does not happen.
authenticate_store(pre, r) ==
  IF r.raised = "none" THEN r.credentials ELSE pre

IdleAuth == [pc |-> "idle"]

NoAuthCall == [force |-> FALSE, pre |-> None, at |-> 0, login |-> "never",
               callbacks |-> <<>>, returned |-> None, raised |-> "none", post |-> None]

\* An Authenticator with the cached credentials `cached`, at time now, no
\* call made yet.
Authenticator(cached, now) ==
  /\ credentials = cached
  /\ auth_lock = Free
  /\ auth = [t \in AuthThreads |-> IdleAuth]
  /\ clock = now
  /\ auth_done = [calls |-> 0, logins |-> 0, last |-> NoAuthCall]

\* DeebotEntity.set_auto_empty(enabled) with each way the command executor
\* can end.
SetAutoEmpty ==
  \E enabled \in BOOLEAN, outcome \in ExcOutcomes :
    LET r == set_auto_empty(err_count[RecDevice], outcome, enabled) IN
    /\ Reconcile(RecDevice, "set_auto_empty", IF enabled THEN "on" ELSE "off",
                 [writes |-> r.writes, raised |-> r.raised])
    /\ err_count' = [err_count EXCEPT ![RecDevice] = r.count]
    /\ exc_hist' = IF Len(exc_hist) < 2 THEN Append(exc_hist, outcome)
                   ELSE <<exc_hist[2], outcome>>
    /\ UNCHANGED <<subscribers, should_poll>>
    /\ UNCHANGED lifeVars
    /\ UNCHANGED authVars

\* After construction (entity.py 100-112) of entities whose device reported
\* status 1 (online) or not, with the observers attached so far: an entity
\* polls exactly when it has observers.
InitEntities(obs, online) ==
  /\ state = [d \in Devices |-> VacuumState(online)]
  /\ err_count = [d \in Devices |-> 0]
  /\ subscribers = [d \in Devices |-> obs]
  /\ should_poll = [d \in Devices |-> obs # {}]
  /\ last = NoOp
  /\ written = [d \in Devices |-> [f \in Fields |-> Unwritten]]
  /\ exc_hist = <<>>
  /\ events = 0

\* The threads beside the reconciler, at rest: with observers attached each
\* entity has its record and its poll task (asleep), and the client is
\* connected with every filter issued.
InitAtRest(obs, cycles) ==
  /\ entity_lock = [d \in Devices |-> Free]
  /\ sc_subscribers = IF obs = {} THEN {} ELSE Devices
  /\ sc_lock = Free
  /\ client = IF obs = {} THEN NoClient ELSE 1
  /\ mqtt = IF obs = {} THEN <<>>
            ELSE <<[status |-> "connected",
                    filters |-> {DeviceFilter(DeviceInfo(d)) : d \in Devices}
                                  \cup {CatchAll}]>>
  /\ caller = [t \in Callers |-> IdleCaller]
  /\ net = IdleNet
  /\ tasks = [d \in Devices |-> IF obs = {} THEN <<>> ELSE <<Loop>>]
  /\ done = NoCall
  /\ fan = NoFan
  /\ heard = NoCallback
  /\ polled = [dev |-> "-", detached |-> FALSE]
  /\ budget = [calls |-> 0, msgs |-> 0, polls |-> 0, drops |-> 0,
               attaches |-> [d \in Devices |-> Cardinality(obs)],
               cycles |-> cycles]

Init ==
  \E obs \in SUBSET Handlers, online \in BOOLEAN :
    InitEntities(obs, online) /\ InitAtRest(obs, MaxPolls) /\ Authenticator(None, 0)

Next == HandleMqttMessage \/ HandleCommand \/ ExcCommand \/ SetAutoEmpty

Spec == Init /\ [][Next]_vars

\* ------------------------------------------------------------------------
\* SpecLife: attach and detach (entity.py 393-410,
\* subscription_client.py 35-63, 97-122)
\* ------------------------------------------------------------------------

\* A call of thread t ends: both locks it may hold are released (the with
\* statements), and the call is recorded; of the detach of a last observer
\* also the polling flag and the presence of the record as it returns.
EndCall(t, d, rec) ==
  /\ caller' = [caller EXCEPT ![t] = IdleCaller]
  /\ entity_lock' = [entity_lock EXCEPT ![d] = Free]
  /\ done' = rec

Spend(what) == budget' = [budget EXCEPT ![what] = @ + 1]

\* DeebotEntity.subscribe(handler) up to the call of
\* SubscriptionClient.subscribe: the lock is taken, the handler added; a
\* handler that is not the first returns at once.
EntitySubscribe(t, d, h) ==
  /\ FirstIdle(t)
  /\ budget.calls < MaxCalls
  /\ entity_lock[d] = Free
  /\ subscribers' = [subscribers EXCEPT ![d] = @ \cup {h}]
  /\ budget' = [budget EXCEPT !.calls = @ + 1, !.attaches[d] = @ + 1]
  /\ IF Cardinality(subscribers[d]) = 0
     THEN /\ entity_lock' = [entity_lock EXCEPT ![d] = t]
          /\ caller' = [caller EXCEPT ![t] = [pc |-> "subscribe", dev |-> d, h |-> h]]
          /\ UNCHANGED done
     ELSE /\ done' = [op |-> "subscribe", dev |-> d, h |-> h, first |-> FALSE,
                      sc_calls |-> 0, started |-> 0, raised |-> "none"]
          /\ UNCHANGED <<entity_lock, caller>>
  /\ UNCHANGED <<state, err_count, should_poll, last, written, exc_hist, events>>
  /\ UNCHANGED <<sc_subscribers, sc_lock, client, mqtt, net, tasks, fan, heard, polled>>
  /\ UNCHANGED authVars

\* How SubscriptionClient._connect can end: authenticate() raises;
\* MQTTClient.connect() raises; or the connection is under way and the loop
\* thread started.
ConnectOutcomes == {"auth_error", "connect_error", "ok"}

\* SubscriptionClient.subscribe(device, handler) called by
\* DeebotEntity.subscribe, and on its return _start_polling(); when it
\* raises, the exception leaves DeebotEntity.subscribe.
ScSubscribe(t) ==
  /\ caller[t].pc = "subscribe"
  /\ sc_lock = Free
  /\ LET d == caller[t].dev
         rec(raised, started) ==
           [op |-> "subscribe", dev |-> d, h |-> caller[t].h, first |-> TRUE,
            sc_calls |-> 1, started |-> started, raised |-> raised]
         started_ok ==
           /\ should_poll' = [should_poll EXCEPT ![d] = TRUE]
           /\ tasks' = [tasks EXCEPT ![d] = Append(@, [pc |-> "loop"])]
           /\ EndCall(t, d, rec("none", 1))
     IN
     /\ sc_subscribers' = sc_subscribers \cup {d}
     /\ IF client = NoClient
        THEN \E outcome \in ConnectOutcomes :
          IF outcome = "auth_error"
          THEN /\ UNCHANGED <<client, mqtt, should_poll, tasks>>
               /\ EndCall(t, d, rec("AuthError", 0))
          ELSE IF outcome = "connect_error"
          THEN /\ mqtt' = Append(mqtt, MQTTClient("created"))
               /\ client' = Len(mqtt) + 1
               /\ UNCHANGED <<should_poll, tasks>>
               /\ EndCall(t, d, rec("ConnectError", 0))
          ELSE /\ mqtt' = Append(mqtt, MQTTClient("connecting"))
               /\ client' = Len(mqtt) + 1
               /\ started_ok
        ELSE /\ mqtt' = IF client_is_connected(mqtt, client)
                        THEN client_subscribe(mqtt, client, DeviceFilter(DeviceInfo(d)))
                        ELSE mqtt
             /\ UNCHANGED client
             /\ started_ok
  /\ UNCHANGED <<state, err_count, subscribers, last, written, exc_hist, events>>
  /\ UNCHANGED <<sc_lock, net, fan, heard, polled, budget>>
  /\ UNCHANGED authVars

\* Mutant of set_remove: a handler that is not there empties the set before
\* the error is raised.
set_remove_clear(obs, h) ==
  IF h \in obs THEN [raised |-> "none", set |-> obs \ {h}]
  ELSE [raised |-> "KeyError", set |-> {}]

\* entity.py 405: self._subscribers.remove(handler); set.remove raises
\* KeyError for an element that is not in the set and leaves the set alone.
set_remove(obs, h) ==
  IF h \in obs THEN [raised |-> "none", set |-> obs \ {h}]
  ELSE [raised |-> "KeyError", set |-> obs]

\* DeebotEntity.unsubscribe(handler) up to the call of
\* SubscriptionClient.unsubscribe: set.remove raises KeyError for a handler
\* that is not there; the last handler's removal stops polling first.
EntityUnsubscribe(t, d, h) ==
  /\ FirstIdle(t)
  /\ budget.calls < MaxCalls
  /\ entity_lock[d] = Free
  /\ Spend("calls")
  /\ subscribers' = [subscribers EXCEPT ![d] = set_remove(@, h).set]
  /\ IF set_remove(subscribers[d], h).raised # "none"
     THEN /\ done' = [op |-> "unsubscribe", dev |-> d, h |-> h, last |-> FALSE,
                      raised |-> set_remove(subscribers[d], h).raised]
          /\ UNCHANGED <<should_poll, entity_lock, caller>>
     ELSE /\ IF Cardinality(set_remove(subscribers[d], h).set) = 0
             THEN /\ should_poll' = [should_poll EXCEPT ![d] = FALSE]
                  /\ entity_lock' = [entity_lock EXCEPT ![d] = t]
                  /\ caller' = [caller EXCEPT ![t] = [pc |-> "unsubscribe", dev |-> d, h |-> h]]
                  /\ UNCHANGED done
             ELSE /\ done' = [op |-> "unsubscribe", dev |-> d, h |-> h, last |-> FALSE,
                              raised |-> "none"]
                  /\ UNCHANGED <<should_poll, entity_lock, caller>>
  /\ UNCHANGED <<state, err_count, last, written, exc_hist, events>>
  /\ UNCHANGED <<sc_subscribers, sc_lock, client, mqtt, net, tasks, fan, heard, polled>>
  /\ UNCHANGED authVars

\* Mutant of registry_remove: the records stay.
registry_remove_keep(subs, d) == subs

\* subscription_client.py 109-117: the records of device d with the
\* entity's handler are collected and removed.
registry_remove(subs, d) == subs \ {d}

\* SubscriptionClient.unsubscribe(device, handler), lines 109-119: the
\* matching records are removed under the lock; with records left the call
\* returns.
ScUnsubscribe(t) ==
  /\ caller[t].pc = "unsubscribe"
  /\ sc_lock = Free
  /\ LET d == caller[t].dev IN
     /\ sc_subscribers' = registry_remove(sc_subscribers, d)
     /\ IF Cardinality(registry_remove(sc_subscribers, d)) = 0
        THEN /\ sc_lock' = t
             /\ caller' = [caller EXCEPT ![t].pc = "disconnect"]
             /\ UNCHANGED <<entity_lock, done>>
        ELSE /\ UNCHANGED sc_lock
             /\ EndCall(t, d, [op |-> "unsubscribe", dev |-> d, h |-> caller[t].h,
                               last |-> TRUE, raised |-> "none",
                               flag |-> should_poll[d],
                               record |-> d \in registry_remove(sc_subscribers, d)])
  /\ UNCHANGED recVars
  /\ UNCHANGED <<client, mqtt, net, tasks, fan, heard, polled, budget>>
  /\ UNCHANGED authVars

\* SubscriptionClient.unsubscribe, lines 120-122: no record is left, so
\* self._client.disconnect() and self._client = None; on None the attribute
\* access raises.
ScDisconnect(t) ==
  /\ caller[t].pc = "disconnect"
  /\ sc_lock' = Free
  /\ LET d == caller[t].dev
         rec(raised) == [op |-> "unsubscribe", dev |-> d, h |-> caller[t].h,
                         last |-> TRUE, raised |-> raised,
                         flag |-> should_poll[d], record |-> d \in sc_subscribers]
     IN IF client = NoClient
        THEN /\ EndCall(t, d, rec("AttributeError"))
             /\ UNCHANGED <<client, mqtt>>
        ELSE /\ mqtt' = [mqtt EXCEPT ![client].status = "disconnected"]
             /\ client' = NoClient
             /\ EndCall(t, d, rec("none"))
  /\ UNCHANGED recVars
  /\ UNCHANGED <<sc_subscribers, net, tasks, fan, heard, polled, budget>>
  /\ UNCHANGED authVars

\* ------------------------------------------------------------------------
\* SpecLife: the broker network thread (subscription_client.py 65-88)
\* ------------------------------------------------------------------------

\* Messages the broker can deliver: on a device's topic an event, garbage
\* and a JSON text without "body"; and an event on a topic outside iot/atr.
Msgs ==
  {[topic |-> TopicOf("onBattery", RecDevice),
    payload |-> Json([body |-> [data |-> [value |-> 50]]])]}
  \cup {[topic |-> TopicOf("onBattery", RecDevice), payload |-> Garbage],
        [topic |-> TopicOf("onBattery", RecDevice),
         payload |-> Json([header |-> [ver |-> "0.0.1"]])],
        [topic |-> <<"iot", "p2p", "onBattery", RecDevice, "cls", "res", "q">>,
         payload |-> Json([body |-> [data |-> [value |-> 50]]])]}

\* The device a topic addresses.
TopicDevice(topic) == topic[4]

\* Entity d has had observers, none is attached now and no call on it is
\* in progress: the detach of its last observer has returned.
Detached(d) == subscribers[d] = {} /\ entity_lock[d] = Free /\ budget.attaches[d] > 0

\* CONNACK for client object c.  rc # 0: _on_connect logs and returns, and
\* the loop tries again.  rc = 0: _on_connect is entered (line 72).
NetConnack(c, rc) ==
  /\ net.pc = "idle"
  /\ mqtt[c].status = "connecting"
  /\ IF rc # 0
     THEN /\ budget.drops < MaxDrops
          /\ Spend("drops")
          /\ heard' = [cb |-> "on_connect", rc |-> rc, raised |-> "none"]
          /\ UNCHANGED <<mqtt, net>>
     ELSE /\ mqtt' = [mqtt EXCEPT ![c].status = "connected"]
          /\ net' = [pc |-> "on_connect", c |-> c, visited |-> {},
                     used |-> Cardinality(sc_subscribers)]
          /\ UNCHANGED <<heard, budget>>
  /\ UNCHANGED recVars
  /\ UNCHANGED <<entity_lock, sc_subscribers, sc_lock, client, caller, tasks, done, fan,
                 polled>>
  /\ UNCHANGED authVars

\* _on_connect ends with `raised`: the record keeps whether the filter of
\* every device with a record is on the session of the client connected,
\* and whether the registry is empty.
OnConnectEnd(m, raised) ==
  /\ net' = IdleNet
  /\ heard' = [cb |-> "on_connect", rc |-> 0, raised |-> raised,
               covered |-> \A d \in sc_subscribers :
                              DeviceFilter(DeviceInfo(d)) \in m[net.c].filters,
               catch_all |-> CatchAll \in m[net.c].filters,
               empty |-> sc_subscribers = {}]
  /\ mqtt' = m

\* One step of _on_connect (lines 72-76): the next record of the iteration
\* over _subscribers and its _subscribe_topic, or after the last one
\* self._client.subscribe("#").  Entering the loop creates the iterator.
NetOnConnect ==
  /\ net.pc \in {"on_connect", "on_connect_loop"}
  /\ LET used == IF net.pc = "on_connect" THEN Cardinality(sc_subscribers) ELSE net.used
         rest == sc_subscribers \ net.visited
     IN
     IF Cardinality(sc_subscribers) # used THEN OnConnectEnd(mqtt, "RuntimeError")
     ELSE IF rest # {}
     THEN \E d \in rest :
            IF client = NoClient THEN OnConnectEnd(mqtt, "AttributeError")
            ELSE /\ mqtt' = client_subscribe(mqtt, client, DeviceFilter(DeviceInfo(d)))
                 /\ net' = [net EXCEPT !.pc = "on_connect_loop", !.used = used,
                                       !.visited = @ \cup {d}]
                 /\ UNCHANGED heard
     ELSE IF client = NoClient THEN OnConnectEnd(mqtt, "AttributeError")
     ELSE OnConnectEnd(client_subscribe(mqtt, client, CatchAll), "none")
  /\ UNCHANGED recVars
  /\ UNCHANGED <<entity_lock, sc_subscribers, sc_lock, client, caller, tasks, done, fan,
                 polled, budget>>
  /\ UNCHANGED authVars

\* The connection of client object c is lost: the loop reconnects, and the
\* new session starts without filters.
NetLost(c) ==
  /\ net.pc = "idle"
  /\ mqtt[c].status = "connected"
  /\ budget.drops < MaxDrops
  /\ Spend("drops")
  /\ mqtt' = [mqtt EXCEPT ![c] = MQTTClient("connecting")]
  /\ UNCHANGED recVars
  /\ UNCHANGED <<entity_lock, sc_subscribers, sc_lock, client, caller, net, tasks, done,
                 fan, heard, polled>>
  /\ UNCHANGED authVars

\* A message arrives on the session of client object c, which holds a
\* filter that matches its topic: _on_message is entered (line 79).
NetMessage(c, msg) ==
  /\ net.pc = "idle"
  /\ mqtt[c].status = "connected"
  /\ \E f \in mqtt[c].filters : FilterMatches(f, msg.topic)
  /\ budget.msgs < MaxMsgs
  /\ Spend("msgs")
  /\ net' = [pc |-> "on_message", c |-> c, msg |-> msg,
             quiet |-> Detached(TopicDevice(msg.topic)),
             attaches |-> budget.attaches[TopicDevice(msg.topic)]]
  /\ UNCHANGED recVars
  /\ UNCHANGED <<entity_lock, sc_subscribers, sc_lock, client, mqtt, caller, tasks, done,
                 fan, heard, polled>>
  /\ UNCHANGED authVars

\* _on_message ends with `raised`, having invoked the handlers of the
\* devices `invoked`, which stored fields or not (wrote).  known: the
\* device the topic addresses had a record when the registry was searched
\* (line 85).  quiet: the
\* addressed entity was detached when the message arrived and no attach
\* call on it came since.
OnMessageEnd(raised, invoked, wrote, known) ==
  /\ net' = IdleNet
  /\ heard' = [cb |-> "on_message", msg |-> net.msg, raised |-> raised,
               invoked |-> invoked, wrote |-> wrote, known |-> known,
               quiet |-> net.quiet /\
                         net.attaches = budget.attaches[TopicDevice(net.msg.topic)]]

\* The handler called at line 88 is through with `raised`: an exception
\* leaves _on_message; otherwise the iteration over _subscribers goes on,
\* checks the size of the set, and finds no further record of the device.
HandlerReturned(raised, used, d, wrote) ==
  IF raised # "none" THEN OnMessageEnd(raised, {d}, wrote, net.known)
  ELSE IF Cardinality(sc_subscribers) # used
  THEN OnMessageEnd("RuntimeError", {d}, wrote, net.known)
  ELSE OnMessageEnd("none", {d}, wrote, net.known)

\* Mutant of registry_targets: every record's handler is a target.
registry_targets_all(subs, device_id) == subs

\* subscription_client.py 85-86: the records whose device.id is the
\* device_id of the topic.
registry_targets(subs, device_id) == {d \in subs : DeviceInfo(d).id = device_id}

\* _on_message from line 81 up to the first observer call of the handler.
NetDispatch ==
  /\ net.pc = "on_message"
  /\ LET m == TOPIC_RE_match(net.msg.topic)
         known == TopicDevice(net.msg.topic) \in sc_subscribers
     IN
     IF ~m.matched
     THEN OnMessageEnd("none", {}, FALSE, known) /\ UNCHANGED <<state, fan>>
     ELSE LET targets == registry_targets(sc_subscribers, m.device_id) IN
       IF targets = {}
       THEN OnMessageEnd("none", {}, FALSE, known) /\ UNCHANGED <<state, fan>>
       ELSE \E d \in targets :
         LET data == json_loads(net.msg.payload) IN
         IF ~data.ok
         THEN OnMessageEnd("JSONDecodeError", {}, FALSE, known) /\ UNCHANGED <<state, fan>>
         ELSE IF "body" \notin DOMAIN data.value
         THEN OnMessageEnd("KeyError", {}, FALSE, known) /\ UNCHANGED <<state, fan>>
         ELSE LET r == handle_mqtt_message(m.command, data.value.body) IN
           \E res \in StartWrites(d, r.writes, r.raised, state[d], subscribers[d], fan) :
             /\ state' = [state EXCEPT ![d] = res.state]
             /\ fan' = res.fan
             /\ IF res.yield
                THEN /\ net' = [pc |-> "handler", c |-> net.c, msg |-> net.msg,
                                quiet |-> net.quiet, attaches |-> net.attaches,
                                known |-> known,
                                dev |-> d, used |-> Cardinality(sc_subscribers),
                                frame |-> res.frame]
                     /\ UNCHANGED heard
                ELSE IF res.raised # "none"
                THEN OnMessageEnd(res.raised, {d}, r.writes # <<>>, known)
                ELSE OnMessageEnd("none", {d}, r.writes # <<>>, known)
  /\ UNCHANGED <<err_count, subscribers, should_poll, last, written, exc_hist, events>>
  /\ UNCHANGED <<entity_lock, sc_subscribers, sc_lock, client, mqtt, caller, tasks, done,
                 polled, budget>>
  /\ UNCHANGED authVars

\* An observer called by the handler returns: the fan-out and the writes of
\* the handler go on.
NetHandler ==
  /\ net.pc = "handler"
  /\ \E res \in ContinueWrites(net.frame, state[net.dev], subscribers[net.dev]) :
       /\ state' = [state EXCEPT ![net.dev] = res.state]
       /\ fan' = res.fan
       /\ IF res.yield
          THEN net' = [net EXCEPT !.frame = res.frame] /\ UNCHANGED heard
          ELSE HandlerReturned(res.raised, net.used, net.dev, TRUE)
  /\ UNCHANGED <<err_count, subscribers, should_poll, last, written, exc_hist, events>>
  /\ UNCHANGED <<entity_lock, sc_subscribers, sc_lock, client, mqtt, caller, tasks, done,
                 polled, budget>>
  /\ UNCHANGED authVars

\* ------------------------------------------------------------------------
\* SpecLife: the poll tasks (entity.py 374-387, 114-150, 306-317;
\* api_client.py 54-92)
\* ------------------------------------------------------------------------

\* force_refresh's requests, in order.
Requests == <<"getInfo", "getInfo", "getLifeSpan">>

\* What PortalClient.do_post gives ApiClient.exc_command: an exception
\* (transport or HTTP status), or the decoded reply.
ApiReplies ==
  {[http |-> "error"],
   [http |-> "ok", json |-> [ret |-> "fail"]],
   [http |-> "ok", json |-> [ret |-> "ok", resp |-> [header |-> [fwVer |-> "1.2.3"],
                                                    body |-> [code |-> 500, msg |-> "fail"]]]],
   [http |-> "ok", json |-> [ret |-> "ok", resp |-> [header |-> [fwVer |-> "1.2.3"],
                                                    body |-> [code |-> 0, msg |-> "ok",
                                                              data |-> <<>>]]]]}

\* ApiClient.exc_command on a reply: ApiErrorException unless ret is ok and
\* the body's code is 0; the return value is resp['resp']['body'].
ApiClient_exc_command(reply) ==
  IF reply.http = "error" THEN [outcome |-> "OtherError"]
  ELSE IF reply.json.ret # "ok" THEN [outcome |-> "ApiError"]
  ELSE IF reply.json.resp.body.code # 0 THEN [outcome |-> "ApiError"]
  ELSE [outcome |-> "ok", rv |-> reply.json.resp.body]

\* force_refresh, line 150, on what exc_command returned:
\* handle_command(command, resp['body'], resp['header']).
force_refresh_apply(command, resp) ==
  IF "body" \notin DOMAIN resp THEN Raise(<<>>, "KeyError")
  ELSE IF "header" \notin DOMAIN resp THEN Raise(<<>>, "KeyError")
  ELSE handle_command(command, resp.body, resp.header)

SetTask(d, i, task) == tasks' = [tasks EXCEPT ![d][i] = task]

\* Mutant of poll_task_exit: the thread stays.
poll_task_stay(ts, i) == ts

\* entity.py 377 and 384: the loop condition is false, poll_task returns and
\* its thread ends: the i-th of the tasks ts is gone.
poll_task_exit(ts, i) == SubSeq(ts, 1, i - 1) \o SubSeq(ts, i + 1, Len(ts))

\* poll_task evaluates `while self._should_poll` (after the start of the
\* thread, or after the sleep): the task goes on to the body or exits.
PollCheck(d, i) ==
  /\ tasks[d][i].pc = "loop"
  /\ IF should_poll[d]
     THEN /\ budget.polls < budget.cycles
          /\ Spend("polls")
          /\ SetTask(d, i, [pc |-> "cycle"])
     ELSE /\ tasks' = [tasks EXCEPT ![d] = poll_task_exit(@, i)]
          /\ UNCHANGED budget
  /\ UNCHANGED recVars
  /\ UNCHANGED <<entity_lock, sc_subscribers, sc_lock, client, mqtt, caller, net, done,
                 fan, heard, polled>>
  /\ UNCHANGED authVars

\* The body of the loop: force_refresh() starts and sends its first
\* request.
PollBegin(d, i) ==
  /\ tasks[d][i].pc = "cycle"
  /\ SetTask(d, i, [pc |-> "api", req |-> 1])
  /\ polled' = [dev |-> d, detached |-> Detached(d)]
  /\ UNCHANGED recVars
  /\ UNCHANGED <<entity_lock, sc_subscribers, sc_lock, client, mqtt, caller, net, done,
                 fan, heard, budget>>
  /\ UNCHANGED authVars

\* Mutant of StageEnd: an exception of force_refresh ends the poll task's
\* thread.
StageEnd_escape(task, raised) ==
  IF raised # "none" THEN [pc |-> "dead"]
  ELSE IF task.stage = "exc_command"
  THEN [pc |-> "apply", req |-> task.req, rv |-> task.rv]
  ELSE IF task.req < Len(Requests) THEN [pc |-> "api", req |-> task.req + 1]
  ELSE Loop

\* The writes of a stage of force_refresh are through with `raised`.  An
\* exception ends force_refresh and is caught by poll_task, which sleeps;
\* after exc_command comes handle_command, after handle_command the next
\* request.
StageEnd(task, raised) ==
  IF raised # "none" THEN Loop
  ELSE IF task.stage = "exc_command"
  THEN [pc |-> "apply", req |-> task.req, rv |-> task.rv]
  ELSE IF task.req < Len(Requests) THEN [pc |-> "api", req |-> task.req + 1]
  ELSE Loop

\* A stage of force_refresh begins the writes ws on entity d.
StageWrites(d, i, task, ws, raised) ==
  \E res \in StartWrites(d, ws, raised, state[d], subscribers[d], fan) :
    /\ state' = [state EXCEPT ![d] = res.state]
    /\ fan' = res.fan
    /\ SetTask(d, i, IF res.yield THEN [task EXCEPT !.pc = "writes", !.frame = res.frame]
                     ELSE StageEnd(task, res.raised))

\* The reply to a request of force_refresh is in: DeebotEntity.exc_command
\* counts failures and writes is_online.  The outcomes of RecDevice's calls
\* are kept in exc_hist.
PollReply(d, i) ==
  /\ tasks[d][i].pc = "api"
  /\ \E reply \in ApiReplies :
       LET a == ApiClient_exc_command(reply)
           r == exc_command(err_count[d], a.outcome)
           task == [pc |-> "api", req |-> tasks[d][i].req, stage |-> "exc_command",
                    rv |-> IF a.outcome = "ok" THEN a.rv ELSE [code |-> -1],
                    frame |-> <<>>]
       IN /\ err_count' = [err_count EXCEPT ![d] = r.count]
          /\ exc_hist' = IF d # RecDevice THEN exc_hist
                         ELSE IF Len(exc_hist) < 2 THEN Append(exc_hist, a.outcome)
                         ELSE <<exc_hist[2], a.outcome>>
          /\ StageWrites(d, i, task, r.writes, r.raised)
  /\ UNCHANGED <<subscribers, should_poll, last, written, events>>
  /\ UNCHANGED <<entity_lock, sc_subscribers, sc_lock, client, mqtt, caller, net, done,
                 heard, polled, budget>>
  /\ UNCHANGED authVars

\* force_refresh hands the reply to handle_command.
PollApply(d, i) ==
  /\ tasks[d][i].pc = "apply"
  /\ LET r == force_refresh_apply(Requests[tasks[d][i].req], tasks[d][i].rv)
         task == [pc |-> "apply", req |-> tasks[d][i].req, stage |-> "handle_command",
                  rv |-> tasks[d][i].rv, frame |-> <<>>]
     IN StageWrites(d, i, task, r.writes, r.raised)
  /\ UNCHANGED <<err_count, subscribers, should_poll, last, written, exc_hist, events>>
  /\ UNCHANGED <<entity_lock, sc_subscribers, sc_lock, client, mqtt, caller, net, done,
                 heard, polled, budget>>
  /\ UNCHANGED authVars

\* An observer called by a write of the poll task returns.
PollWrites(d, i) ==
  /\ tasks[d][i].pc = "writes"
  /\ \E res \in ContinueWrites(tasks[d][i].frame, state[d], subscribers[d]) :
       /\ state' = [state EXCEPT ![d] = res.state]
       /\ fan' = res.fan
       /\ SetTask(d, i, IF res.yield THEN [tasks[d][i] EXCEPT !.frame = res.frame]
                        ELSE StageEnd(tasks[d][i], res.raised))
  /\ UNCHANGED <<err_count, subscribers, should_poll, last, written, exc_hist, events>>
  /\ UNCHANGED <<entity_lock, sc_subscribers, sc_lock, client, mqtt, caller, net, done,
                 heard, polled, budget>>
  /\ UNCHANGED authVars

\* ------------------------------------------------------------------------
\* SpecLife: the specification
\* ------------------------------------------------------------------------

\* After construction (subscription_client.py 25-33, entity.py 100-112):
\* no observer, no record, no client, no poll task.
InitLife ==
  /\ InitEntities({}, TRUE)
  /\ entity_lock = [d \in Devices |-> Free]
  /\ sc_subscribers = {}
  /\ sc_lock = Free
  /\ client = NoClient
  /\ mqtt = <<>>
  /\ caller = [t \in Callers |-> IdleCaller]
  /\ net = IdleNet
  /\ tasks = [d \in Devices |-> <<>>]
  /\ done = NoCall
  /\ fan = NoFan
  /\ heard = NoCallback
  /\ polled = [dev |-> "-", detached |-> FALSE]
  /\ budget = [calls |-> 0, msgs |-> 0, polls |-> 0, drops |-> 0,
               attaches |-> [d \in Devices |-> 0], cycles |-> MaxPolls]
  /\ Authenticator(None, 0)

CallerNext ==
  \E t \in Callers :
    \/ \E d \in Devices, h \in Handlers : EntitySubscribe(t, d, h)
    \/ ScSubscribe(t)
    \/ \E d \in Devices, h \in Handlers : EntityUnsubscribe(t, d, h)
    \/ ScUnsubscribe(t)
    \/ ScDisconnect(t)

NetNext ==
  \/ \E c \in DOMAIN mqtt, rc \in {0, 5} : NetConnack(c, rc)
  \/ NetOnConnect
  \/ \E c \in DOMAIN mqtt : NetLost(c)
  \/ \E c \in DOMAIN mqtt, msg \in Msgs : NetMessage(c, msg)
  \/ NetDispatch
  \/ NetHandler

PollNext ==
  \/ \E d \in Devices : \E i \in DOMAIN tasks[d] : PollCheck(d, i)
  \/ \E d \in Devices : \E i \in DOMAIN tasks[d] : PollBegin(d, i)
  \/ \E d \in Devices : \E i \in DOMAIN tasks[d] : PollReply(d, i)
  \/ \E d \in Devices : \E i \in DOMAIN tasks[d] : PollApply(d, i)
  \/ \E d \in Devices : \E i \in DOMAIN tasks[d] : PollWrites(d, i)

NextLife == CallerNext \/ NetNext \/ PollNext

SpecLife == InitLife /\ [][NextLife]_vars

\* ------------------------------------------------------------------------
\* SpecPoll: the poll tasks of attached entities and the detach calls,
\* with the poll tasks scheduled fairly
\* ------------------------------------------------------------------------

\* Every entity has the observers obs attached, polls and has its record
\* (entity.py 393-401 has run for each).
InitPoll ==
  \E obs \in (SUBSET Handlers) \ {{}} :
    InitEntities(obs, TRUE) /\ InitAtRest(obs, MaxCycles) /\ Authenticator(None, 0)

DetachNext ==
  \E t \in Callers :
    \/ \E d \in Devices, h \in Handlers : EntityUnsubscribe(t, d, h)
    \/ ScUnsubscribe(t)
    \/ ScDisconnect(t)

NextPoll == PollNext \/ DetachNext

\* A step of a poll task of entity d.
PollStep(d) ==
  \E i \in DOMAIN tasks[d] :
    PollCheck(d, i) \/ PollBegin(d, i) \/ PollReply(d, i) \/ PollApply(d, i)
      \/ PollWrites(d, i)

\* The poll task is a thread of its own: the scheduler runs it, its sleep
\* ends, its HTTP request returns or fails, and the observers it calls
\* return.
SpecPoll ==
  InitPoll /\ [][NextPoll]_vars /\ \A d \in Devices : WF_vars(PollStep(d))

\* ------------------------------------------------------------------------
\* SpecAuth: concurrent calls of Authenticator.authenticate
\* ------------------------------------------------------------------------

AuthEnd(t, rec) ==
  /\ auth' = [auth EXCEPT ![t] = IdleAuth]
  /\ auth_done' = [auth_done EXCEPT !.last = rec]

\* Thread t calls authenticate(force) and waits for the lock.
AuthCall(t, force) ==
  /\ auth[t].pc = "idle"
  /\ \A u \in AuthThreads : u < t => auth[u].pc # "idle"
  /\ auth_done.calls < MaxAuthCalls
  /\ auth' = [auth EXCEPT ![t] = [pc |-> "lock", force |-> force]]
  /\ auth_done' = [auth_done EXCEPT !.calls = @ + 1]
  /\ UNCHANGED <<credentials, auth_lock, clock>>
  /\ UNCHANGED <<recVars, lifeVars>>

\* Lines 207-216 and 224: the lock is taken and should_login decided; with
\* no login to make the cached credentials are returned and the lock released.
AuthEnter(t) ==
  /\ auth[t].pc = "lock"
  /\ auth_lock = Free
  /\ IF should_login(credentials, auth[t].force, clock)
     THEN /\ auth_lock' = t
          /\ auth' = [auth EXCEPT ![t] = [pc |-> "login", force |-> auth[t].force,
                                          pre |-> credentials, at |-> clock]]
          /\ UNCHANGED auth_done
     ELSE /\ AuthEnd(t, [force |-> auth[t].force, pre |-> credentials, at |-> clock,
                         login |-> "none", callbacks |-> <<>>, returned |-> credentials,
                         raised |-> "none", post |-> credentials])
          /\ UNCHANGED auth_lock
  /\ UNCHANGED <<credentials, clock>>
  /\ UNCHANGED <<recVars, lifeVars>>

\* Lines 217-219: DeebotAuthClient.login returns or raises.  An exception
\* leaves authenticate through the with statement, which releases the lock;
\* otherwise the credentials are stored and the callback is called.
AuthLogin(t, outcome) ==
  /\ auth[t].pc = "login"
  /\ LET r == DeebotAuthClient_login(outcome, auth_done.logins + 1, clock)
         stored == authenticate_store(credentials, r)
         rec(login, cbs, returned) ==
           [force |-> auth[t].force, pre |-> auth[t].pre, at |-> auth[t].at,
            login |-> login, callbacks |-> cbs, returned |-> returned,
            raised |-> r.raised, post |-> stored]
     IN /\ credentials' = stored
        /\ IF r.raised # "none"
           THEN /\ auth_lock' = Free
                /\ auth' = [auth EXCEPT ![t] = IdleAuth]
                /\ auth_done' = [auth_done EXCEPT !.logins = @ + 1,
                                                  !.last = rec("failed", <<>>, None)]
           ELSE IF on_credentials_changed_installed
           THEN /\ auth' = [auth EXCEPT ![t] = [pc |-> "callback", force |-> auth[t].force,
                                                pre |-> auth[t].pre, at |-> auth[t].at,
                                                arg |-> stored]]
                /\ auth_done' = [auth_done EXCEPT !.logins = @ + 1]
                /\ UNCHANGED auth_lock
           ELSE /\ auth_lock' = Free
                /\ auth' = [auth EXCEPT ![t] = IdleAuth]
                /\ auth_done' = [auth_done EXCEPT !.logins = @ + 1,
                                                  !.last = rec("ok", <<>>, stored)]
  /\ UNCHANGED clock
  /\ UNCHANGED <<recVars, lifeVars>>

\* How on_credentials_changed can end (the CLI writes the config file).
CallbackOutcomes == {"none", "OSError"}

\* Lines 221-224: on_credentials_changed(self._credentials) returns or
\* raises; the credentials are returned, or the exception leaves
\* authenticate; the lock is released.
AuthCallback(t, outcome) ==
  /\ auth[t].pc = "callback"
  /\ auth_lock' = Free
  /\ AuthEnd(t, [force |-> auth[t].force, pre |-> auth[t].pre, at |-> auth[t].at,
                 login |-> "ok", callbacks |-> <<auth[t].arg>>,
                 returned |-> IF outcome = "none" THEN credentials ELSE None,
                 raised |-> outcome, post |-> credentials])
  /\ UNCHANGED <<credentials, clock>>
  /\ UNCHANGED <<recVars, lifeVars>>

\* A day passes.
Tick ==
  /\ clock < MaxNow
  /\ clock' = clock + 1
  /\ UNCHANGED <<credentials, auth_lock, auth, auth_done>>
  /\ UNCHANGED <<recVars, lifeVars>>

\* The credentials the Authenticator is constructed with (cached_credentials
\* of the config): none, or those of an earlier login.
CachedCredentials == {None} \cup {Credentials(0, e) : e \in {0, 1, 3}}

InitAuth ==
  \E cached \in CachedCredentials :
    InitEntities({}, TRUE) /\ InitAtRest({}, MaxPolls) /\ Authenticator(cached, 1)

NextAuth ==
  \/ \E t \in AuthThreads, force \in BOOLEAN : AuthCall(t, force)
  \/ \E t \in AuthThreads : AuthEnter(t)
  \/ \E t \in AuthThreads, outcome \in LoginOutcomes : AuthLogin(t, outcome)
  \/ \E t \in AuthThreads, outcome \in CallbackOutcomes : AuthCallback(t, outcome)
  \/ Tick

SpecAuth == InitAuth /\ [][NextAuth]_vars

\* ------------------------------------------------------------------------
\* SpecLock: attach and detach calls step by step at their lock requests
\* (entity.py 393-410, subscription_client.py 35-63 and 97-122,
\* auth_client.py 206-224), beside threads that call authenticate directly
\* ------------------------------------------------------------------------

\* Mutant of sc_lock_exit: the lock stays with the thread.
sc_lock_exit_held(t) == t

\* subscription_client.py 98 and 110: leaving `with self._lock`, by return
\* or by exception, releases the lock.
sc_lock_exit(t) == Free

\* The holder of Authenticator._lock when caller thread t has it (the
\* threads of AuthThreads hold it under their own number).
AsAuthHolder(t) == 0 - t

\* Thread t calls DeebotEntity.subscribe(h) or unsubscribe(h) on entity d
\* and requests the entity's lock (lines 394, 404).
LockCall(t, d, h, op) ==
  /\ FirstIdle(t)
  /\ budget.calls < MaxCalls
  /\ caller' = [caller EXCEPT ![t] = [pc |-> "entity?", op |-> op, dev |-> d, h |-> h]]
  /\ budget' = [budget EXCEPT !.calls = @ + 1,
                              !.attaches[d] = @ + (IF op = "subscribe" THEN 1 ELSE 0)]
  /\ UNCHANGED <<entity_lock, sc_subscribers, sc_lock, client, mqtt, net, tasks, done, fan,
                 heard, polled>>
  /\ UNCHANGED recVars
  /\ UNCHANGED authVars

\* The entity's lock is free and t takes it: lines 395-397 of subscribe,
\* 405-408 of unsubscribe.  A handler that is not the first, or not the
\* last, or not there, ends the call; otherwise SubscriptionClient's lock is
\* requested next (lines 98, 110).
TakeEntity(t) ==
  /\ caller[t].pc = "entity?"
  /\ LET d == caller[t].dev
         h == caller[t].h
         r == set_remove(subscribers[d], h)
     IN
     /\ entity_lock[d] = Free
     /\ IF caller[t].op = "subscribe"
        THEN /\ subscribers' = [subscribers EXCEPT ![d] = @ \cup {h}]
             /\ UNCHANGED should_poll
             /\ IF Cardinality(subscribers[d]) = 0
                THEN /\ entity_lock' = [entity_lock EXCEPT ![d] = t]
                     /\ caller' = [caller EXCEPT ![t].pc = "sc?"]
                     /\ UNCHANGED done
                ELSE EndCall(t, d, [op |-> "subscribe", dev |-> d, h |-> h, first |-> FALSE,
                                    sc_calls |-> 0, started |-> 0, raised |-> "none"])
        ELSE /\ subscribers' = [subscribers EXCEPT ![d] = r.set]
             /\ IF r.raised = "none" /\ Cardinality(r.set) = 0
                THEN /\ should_poll' = [should_poll EXCEPT ![d] = FALSE]
                     /\ entity_lock' = [entity_lock EXCEPT ![d] = t]
                     /\ caller' = [caller EXCEPT ![t].pc = "sc?"]
                     /\ UNCHANGED done
                ELSE /\ UNCHANGED should_poll
                     /\ EndCall(t, d, [op |-> "unsubscribe", dev |-> d, h |-> h,
                                       last |-> FALSE, raised |-> r.raised])
  /\ UNCHANGED <<state, err_count, last, written, exc_hist, events>>
  /\ UNCHANGED <<sc_subscribers, sc_lock, client, mqtt, net, tasks, fan, heard, polled, budget>>
  /\ UNCHANGED authVars

\* SubscriptionClient's lock is free and t takes it.  subscribe (lines
\* 99-106): the record is added; without a client _connect begins and
\* requests the Authenticator's lock (line 38); with one the filter is
\* issued, the lock released and polling started.  unsubscribe (lines
\* 111-122): the records are removed and with none left the client is
\* disconnected.
TakeSc(t) ==
  /\ caller[t].pc = "sc?"
  /\ sc_lock = Free
  /\ LET d == caller[t].dev
         h == caller[t].h
         left == registry_remove(sc_subscribers, d)
         gone(raised) == [op |-> "unsubscribe", dev |-> d, h |-> h, last |-> TRUE,
                          raised |-> raised, flag |-> should_poll[d], record |-> d \in left]
     IN
     IF caller[t].op = "subscribe"
     THEN /\ sc_subscribers' = sc_subscribers \cup {d}
          /\ UNCHANGED client
          /\ IF client = NoClient
             THEN /\ sc_lock' = t
                  /\ caller' = [caller EXCEPT ![t].pc = "auth?"]
                  /\ UNCHANGED <<mqtt, should_poll, tasks, entity_lock, done>>
             ELSE /\ mqtt' = IF client_is_connected(mqtt, client)
                             THEN client_subscribe(mqtt, client, DeviceFilter(DeviceInfo(d)))
                             ELSE mqtt
                  /\ sc_lock' = sc_lock_exit(t)
                  /\ should_poll' = [should_poll EXCEPT ![d] = TRUE]
                  /\ tasks' = [tasks EXCEPT ![d] = Append(@, Loop)]
                  /\ EndCall(t, d, [op |-> "subscribe", dev |-> d, h |-> h, first |-> TRUE,
                                    sc_calls |-> 1, started |-> 1, raised |-> "none"])
     ELSE /\ sc_subscribers' = left
          /\ sc_lock' = sc_lock_exit(t)
          /\ UNCHANGED <<should_poll, tasks>>
          /\ IF Cardinality(left) # 0
             THEN UNCHANGED <<client, mqtt>> /\ EndCall(t, d, gone("none"))
             ELSE IF client = NoClient
             THEN UNCHANGED <<client, mqtt>> /\ EndCall(t, d, gone("AttributeError"))
             ELSE /\ mqtt' = [mqtt EXCEPT ![client].status = "disconnected"]
                  /\ client' = NoClient
                  /\ EndCall(t, d, gone("none"))
  /\ UNCHANGED <<state, err_count, subscribers, last, written, exc_hist, events>>
  /\ UNCHANGED <<net, fan, heard, polled, budget>>
  /\ UNCHANGED authVars

\* The Authenticator's lock is free and t, inside _connect, takes it
\* (authenticate(), force = False): with a login to make the lock is kept;
\* otherwise the cached credentials are returned and the lock released.
TakeAuth(t) ==
  /\ caller[t].pc = "auth?"
  /\ auth_lock = Free
  /\ IF should_login(credentials, FALSE, clock)
     THEN /\ auth_lock' = AsAuthHolder(t)
          /\ caller' = [caller EXCEPT ![t].pc = "login"]
     ELSE /\ caller' = [caller EXCEPT ![t].pc = "connect"]
          /\ UNCHANGED auth_lock
  /\ UNCHANGED recVars
  /\ UNCHANGED <<entity_lock, sc_subscribers, sc_lock, client, mqtt, net, tasks, done, fan,
                 heard, polled, budget>>
  /\ UNCHANGED <<credentials, auth, clock, auth_done>>

\* The login of t's authenticate call returns or raises, and after a login
\* on_credentials_changed returns or raises.  The Authenticator's lock is
\* released; an exception leaves _connect, SubscriptionClient.subscribe
\* and DeebotEntity.subscribe, releasing their locks.
CallerLogin(t, outcome, cb) ==
  /\ caller[t].pc = "login"
  /\ LET d == caller[t].dev
         r == DeebotAuthClient_login(outcome, auth_done.logins + 1, clock)
         raised == IF r.raised # "none" THEN r.raised
                   ELSE IF on_credentials_changed_installed THEN cb ELSE "none"
     IN /\ credentials' = authenticate_store(credentials, r)
        /\ auth_done' = [auth_done EXCEPT !.logins = @ + 1]
        /\ auth_lock' = Free
        /\ IF raised # "none"
           THEN /\ sc_lock' = sc_lock_exit(t)
                /\ EndCall(t, d, [op |-> "subscribe", dev |-> d, h |-> caller[t].h,
                                  first |-> TRUE, sc_calls |-> 1, started |-> 0,
                                  raised |-> raised])
           ELSE /\ caller' = [caller EXCEPT ![t].pc = "connect"]
                /\ UNCHANGED <<sc_lock, entity_lock, done>>
  /\ UNCHANGED recVars
  /\ UNCHANGED <<sc_subscribers, client, mqtt, net, tasks, fan, heard, polled, budget>>
  /\ UNCHANGED <<auth, clock>>

\* _connect, lines 50-63: the client object is created and connect()
\* raises or returns; SubscriptionClient's lock is released, and after a
\* return polling starts.
CallerConnect(t, outcome) ==
  /\ caller[t].pc = "connect"
  /\ LET d == caller[t].dev
         rec(raised, started) ==
           [op |-> "subscribe", dev |-> d, h |-> caller[t].h, first |-> TRUE,
            sc_calls |-> 1, started |-> started, raised |-> raised]
     IN /\ client' = Len(mqtt) + 1
        /\ sc_lock' = sc_lock_exit(t)
        /\ IF outcome = "connect_error"
           THEN /\ mqtt' = Append(mqtt, MQTTClient("created"))
                /\ UNCHANGED <<should_poll, tasks>>
                /\ EndCall(t, d, rec("ConnectError", 0))
           ELSE /\ mqtt' = Append(mqtt, MQTTClient("connecting"))
                /\ should_poll' = [should_poll EXCEPT ![d] = TRUE]
                /\ tasks' = [tasks EXCEPT ![d] = Append(@, Loop)]
                /\ EndCall(t, d, rec("none", 1))
  /\ UNCHANGED <<state, err_count, subscribers, last, written, exc_hist, events>>
  /\ UNCHANGED <<sc_subscribers, net, fan, heard, polled, budget>>
  /\ UNCHANGED authVars

\* A poll task's request calls authenticate() (api_client.py 55) while
\* the attach and detach calls run.
RequestAuthenticate(t, force) ==
  /\ auth_done.calls < MaxRequests
  /\ AuthCall(t, force)

InitLock ==
  \E cached \in {None, Credentials(0, 3)} :
    InitEntities({}, TRUE) /\ InitAtRest({}, MaxPolls) /\ Authenticator(cached, 1)

NextLock ==
  \/ \E t \in Callers, d \in Devices, h \in Handlers,
        op \in {"subscribe", "unsubscribe"} : LockCall(t, d, h, op)
  \/ \E t \in Callers : TakeEntity(t)
  \/ \E t \in Callers : TakeSc(t)
  \/ \E t \in Callers : TakeAuth(t)
  \/ \E t \in Callers, outcome \in LoginOutcomes, cb \in CallbackOutcomes :
        CallerLogin(t, outcome, cb)
  \/ \E t \in Callers, outcome \in {"connect_error", "ok"} : CallerConnect(t, outcome)
  \/ \E t \in AuthThreads, force \in BOOLEAN : RequestAuthenticate(t, force)
  \/ \E t \in AuthThreads : AuthEnter(t)
  \/ \E t \in AuthThreads, outcome \in LoginOutcomes : AuthLogin(t, outcome)
  \/ \E t \in AuthThreads, outcome \in CallbackOutcomes : AuthCallback(t, outcome)

SpecLock == InitLock /\ [][NextLock]_vars

\* ------------------------------------------------------------------------
\* SpecSet: the setters of water level and suction speed, and the device's
\* report of the setting it was sent
\* ------------------------------------------------------------------------

\* Mutant of water_level_map: the amounts count from 0, as on the
\* bd_setting path.
water_level_map_zero == ("LOW" :> 0 @@ "MEDIUM" :> 1 @@ "HIGH" :> 2 @@ "ULTRA_HIGH" :> 3)

\* entity.py 442-447
water_level_map == ("LOW" :> 1 @@ "MEDIUM" :> 2 @@ "HIGH" :> 3 @@ "ULTRA_HIGH" :> 4)

\* entity.py 454-459
speed_map == ("QUIET" :> 1000 @@ "STANDARD" :> 0 @@ "MAX" :> 1 @@ "MAX_PLUS" :> 2)

\* DeebotEntity.set_water_level(level) (entity.py 440-450): the command and
\* the data handed to exc_command, and how exc_command ends.
set_water_level(count, outcome, level) ==
  LET r == exc_command(count, outcome) IN
  [count |-> r.count, writes |-> r.writes, raised |-> r.raised,
   command |-> "setWaterInfo", data |-> [amount |-> water_level_map[level]]]

\* DeebotEntity.set_vacuum_speed(speed) (entity.py 452-462)
set_vacuum_speed(count, outcome, speed) ==
  LET r == exc_command(count, outcome) IN
  [count |-> r.count, writes |-> r.writes, raised |-> r.raised,
   command |-> "setSpeed", data |-> [speed |-> speed_map[speed]]]

\* A setter called with `asked` on RecDevice: exc_command's writes are
\* applied, and the command sent is kept with the call.
Setter(name, asked, outcome, r) ==
  LET a == ApplyWrites(state[RecDevice], r.writes, subscribers[RecDevice]) IN
  /\ events < MaxEvents
  /\ state' = [state EXCEPT ![RecDevice] = a.state]
  /\ written' = [written EXCEPT ![RecDevice] = LastWrites(@, r.writes, name)]
  /\ last' = [op |-> name, command |-> r.command, log |-> a.log, raised |-> r.raised,
              asked |-> asked, data |-> r.data]
  /\ events' = events + 1
  /\ err_count' = [err_count EXCEPT ![RecDevice] = r.count]
  /\ exc_hist' = IF Len(exc_hist) < 2 THEN Append(exc_hist, outcome)
                 ELSE <<exc_hist[2], outcome>>

\* set_water_level with each level and each way the command executor can
\* end.
SetWaterLevel ==
  \E level \in DOMAIN water_level_map, outcome \in ExcOutcomes :
    /\ Setter("set_water_level", level, outcome,
              set_water_level(err_count[RecDevice], outcome, level))
    /\ UNCHANGED <<subscribers, should_poll>>
    /\ UNCHANGED lifeVars
    /\ UNCHANGED authVars

\* set_vacuum_speed with each speed and each way the command executor can
\* end.
SetVacuumSpeed ==
  \E speed \in DOMAIN speed_map, outcome \in ExcOutcomes :
    /\ Setter("set_vacuum_speed", speed, outcome,
              set_vacuum_speed(err_count[RecDevice], outcome, speed))
    /\ UNCHANGED <<subscribers, should_poll>>
    /\ UNCHANGED lifeVars
    /\ UNCHANGED authVars

\* The device, having taken the setting, reports it: the broker delivers
\* onWaterInfo or onSpeed carrying the value that was sent, and
\* handle_mqtt_message decodes it (entity.py 218-225, 253-263).
DeviceReports ==
  /\ last.op \in {"set_water_level", "set_vacuum_speed"}
  /\ last.raised = "none"
  /\ \E enable \in {0, 1} :
       LET command == IF last.op = "set_water_level" THEN "onWaterInfo" ELSE "onSpeed"
           data == IF last.op = "set_water_level"
                   THEN [enable |-> enable, amount |-> last.data.amount]
                   ELSE [speed |-> last.data.speed]
           r == handle_mqtt_message(command, [data |-> data])
           a == ApplyWrites(state[RecDevice], r.writes, subscribers[RecDevice])
       IN /\ events < MaxEvents
          /\ state' = [state EXCEPT ![RecDevice] = a.state]
          /\ written' = [written EXCEPT ![RecDevice] =
                           LastWrites(@, r.writes, "handle_mqtt_message")]
          /\ last' = [op |-> "report", command |-> command, log |-> a.log,
                      raised |-> r.raised, asked |-> last.asked, data |-> data]
          /\ events' = events + 1
  /\ UNCHANGED <<err_count, subscribers, should_poll, exc_hist>>
  /\ UNCHANGED lifeVars
  /\ UNCHANGED authVars

NextSet == SetWaterLevel \/ SetVacuumSpeed \/ DeviceReports

SpecSet == Init /\ [][NextSet]_vars

\* ------------------------------------------------------------------------
\* Claims checked under Spec
\* ------------------------------------------------------------------------

\* C1 (as claimed): with the change callback installed, a write notifies the
\* observers if and only if the value written differs from the value stored
\* before the write; a write of the value already stored notifies nobody.
C1_NotifiedIffChanged ==
  \A i \in DOMAIN last.log :
    \A h \in subscribers[RecDevice] :
      (h \in last.log[i].called) <=> (last.log[i].old # last.log[i].value)

\* C3: after any sequence of events applied through handle_mqtt_message and
\* handle_command, every field that has been written holds the value of the
\* most recent write, whichever entry point made it.
C3_LastWriteWins ==
  \A d \in Devices : \A f \in Fields :
    written[d][f].srcs # {} => state[d][f] = written[d][f].value

\* C3 witness: battery_level was written by the push entry point and then,
\* with another value, by the poll entry point, whose value is stored.
C3_Witness ==
  /\ written[RecDevice]["battery_level"].srcs = {"handle_mqtt_message", "handle_command"}
  /\ last.op = "handle_command"
  /\ \E i \in DOMAIN last.log :
       /\ last.log[i].key = "battery_level"
       /\ last.log[i].old = Some(80)
       /\ last.log[i].value = Some(50)
  /\ state[RecDevice]["battery_level"] = Some(50)

\* The outcome of the most recent exc_command, and of the one before it.
ExcLast == IF exc_hist = <<>> THEN "never" ELSE exc_hist[Len(exc_hist)]
ExcBefore == IF Len(exc_hist) < 2 THEN "never" ELSE exc_hist[1]

\* C6: after a success is_online is true and the failure counter is 0; after
\* two consecutive ApiError outcomes is_online is false; one ApiError right
\* after a success leaves is_online as the success set it.
C6_OnlineHysteresis ==
  /\ ExcLast = "ok" =>
       state[RecDevice]["is_online"] = Some(TRUE) /\ err_count[RecDevice] = 0
  /\ (ExcLast = "ApiError" /\ ExcBefore = "ApiError") =>
       state[RecDevice]["is_online"] = Some(FALSE)
  /\ (ExcLast = "ApiError" /\ ExcBefore = "ok") =>
       /\ state[RecDevice]["is_online"] = Some(TRUE)
       /\ last.op = "exc_command" => last.log = <<>>

\* C6 witness: the second of two consecutive ApiError outcomes has just
\* flipped is_online from true to false.
C6_Witness ==
  /\ exc_hist = <<"ApiError", "ApiError">>
  /\ last.op = "exc_command"
  /\ last.log = <<[key |-> "is_online", old |-> Some(TRUE), new |-> Some(FALSE),
                   value |-> Some(FALSE), called |-> subscribers[RecDevice]]>>
  /\ state[RecDevice]["is_online"] = Some(FALSE)

\* The snapshot of RecDevice and the notifications after the writes of
\* outcome r are applied to the current snapshot.
Applied(r) == ApplyWrites(state[RecDevice], r.writes, subscribers[RecDevice])

\* The WaterFlow values in rising order.
WaterFlow == <<"LOW", "MEDIUM", "HIGH", "ULTRA_HIGH">>

\* C16: for every level k in 0..3, amount k on the onFwBuryPoint/bd_setting
\* path and amount k+1 on the onWaterInfo and getWaterInfo paths store the
\* same water_level, the k-th WaterFlow value, whatever the snapshot held.
C16_WaterFlowConverges ==
  \A k \in 0..3 : \A b \in {0, 1} :
    LET bury == handle_mqtt_message("onFwBuryPoint",
                                    [data |-> [content |-> BurySetting(k, b)]])
        info == handle_mqtt_message("onWaterInfo", [data |-> [enable |-> b, amount |-> k + 1]])
        poll == handle_command("getWaterInfo", [data |-> [enable |-> b, amount |-> k + 1]],
                               NoHeader)
    IN /\ bury.raised = "none" /\ info.raised = "none" /\ poll.raised = "none"
       /\ Applied(bury).state["water_level"] = Some(WaterFlow[k + 1])
       /\ Applied(info).state["water_level"] = Some(WaterFlow[k + 1])
       /\ Applied(poll).state["water_level"] = Some(WaterFlow[k + 1])

\* The bd_setting path (amount 3) has stored ULTRA_HIGH over the ULTRA_HIGH
\* that getWaterInfo (amount 4) had stored.
C16_Witness ==
  /\ last.op = "handle_mqtt_message" /\ last.command = "onFwBuryPoint"
  /\ written[RecDevice]["water_level"].srcs = {"handle_command", "handle_mqtt_message"}
  /\ \E i \in DOMAIN last.log :
       /\ last.log[i].key = "water_level"
       /\ last.log[i].old = Some("ULTRA_HIGH")
       /\ last.log[i].value = Some("ULTRA_HIGH")

\* The command names with a branch of their own in handle_mqtt_message and
\* in handle_command.
PushModeled ==
  {"onBattery", "onChargeState", "onCleanCount", "onCleanInfo_V2", "onCleanPreference",
   "onFwBuryPoint", "onSpeed", "onStats", "onTrueDetect", "onWaterInfo"}
  \cup IgnoredCommands

PollModeled ==
  DOMAIN MqCommand
  \cup {"getInfo", "getTotalStats", "getLifeSpan", "getCarpertPressure", "getAutoEmpty"}

\* C17: an event whose command name is not modeled raises no error and
\* writes no field; on the poll path the versions of the header may be
\* written.
C17_UnmodeledIgnored ==
  /\ (last.op = "handle_mqtt_message" /\ last.command \notin PushModeled) =>
       (last.raised = "none" /\ last.log = <<>>)
  /\ (last.op = "handle_command" /\ last.command \notin PollModeled) =>
       /\ last.raised = "none"
       /\ \A i \in DOMAIN last.log :
            last.log[i].key \in {"firmware_version", "hardware_version"}

\* The commands that exist on both channels, by poll and push name.
BothChannels ==
  {<<"getBattery", "onBattery">>, <<"getChargeState", "onChargeState">>,
   <<"getCleanCount", "onCleanCount">>, <<"getCleanInfo_V2", "onCleanInfo_V2">>,
   <<"getCleanPreference", "onCleanPreference">>, <<"getError", "onError">>,
   <<"getSpeed", "onSpeed">>, <<"getStats", "onStats">>,
   <<"getTrueDetect", "onTrueDetect">>, <<"getWaterInfo", "onWaterInfo">>}

\* C20: for each command on both channels and each reply,
\* handle_command('getX', reply) and handle_mqtt_message('onX', reply) lead
\* from the current snapshot to the same snapshot with the same sequence
\* of notifications.
C20_ChannelsAgree ==
  \A c \in BothChannels :
    \A ev \in {e \in SharedEvents \cup {[command |-> c[2], body |-> [code |-> 0]]} :
                e.command = c[2]} :
      Applied(handle_command(c[1], ev.body, NoHeader))
        = Applied(handle_mqtt_message(c[2], ev.body))

\* A reply to a command of both channels has been applied through the
\* poll entry point, with writes and an observer to notify.
C20_Witness ==
  /\ last.op = "handle_command" /\ last.command \in {c[1] : c \in BothChannels}
  /\ last.log # <<>> /\ last.log[1].called # {}
  /\ last.raised = "none"

RECURSIVE EachEntry(_, _)
\* handle_command(key, value, None) called for each entry of items on its
\* own, in order, from snapshot st: a call that raises has stored what it
\* wrote before, and the next call is made all the same.
EachEntry(st, items) ==
  IF items = <<>> THEN st
  ELSE EachEntry(StoreAll(st, handle_command(items[1].key, items[1].value, NoHeader).writes),
                 Tail(items))

\* C21 (as claimed): a getInfo reply applied through handle_command leaves
\* the snapshot that applying each of its entries through handle_command,
\* one call per entry in the reply's order, leaves.
C21_BatchAsEach ==
  \A items \in InfoBatches :
    Applied(handle_command("getInfo", [data |-> items], NoHeader)).state
      = EachEntry(state[RecDevice], items)

\* C26 (as claimed): in every snapshot, a robot state of IDLE or RETURNING
\* goes with an absent clean_type, whatever events were applied.
C26_IdleHasNoCleanType ==
  \A d \in Devices :
    state[d]["state"] \in {Some("IDLE"), Some("RETURNING")} => state[d]["clean_type"] = None

\* The writes of the operation applied last that went to field f.
LastLogOf(f) == {i \in DOMAIN last.log : last.log[i].key = f}

\* C29: set_auto_empty(enabled) whose command succeeded has stored
\* auto_empty_enabled = enabled as its last write, after is_online; when the
\* command failed the call has raised the command's error, has not written
\* auto_empty_enabled, and an ApiError has been counted.
C29_AutoEmptyAfterSuccess ==
  last.op = "set_auto_empty" =>
    IF last.raised = "none"
    THEN /\ LastLogOf("auto_empty_enabled") = {Len(last.log)}
         /\ LastLogOf("is_online") = {1}
         /\ last.log[Len(last.log)].value = Some(last.command = "on")
         /\ state[RecDevice]["auto_empty_enabled"] = Some(last.command = "on")
    ELSE /\ LastLogOf("auto_empty_enabled") = {}
         /\ last.raised = ExcLast
         /\ ExcLast = "ApiError" => err_count[RecDevice] >= 1

\* set_auto_empty(False) has failed with ApiError on an entity whose
\* auto_empty_enabled was true, and the field is still true.
C29_Witness ==
  /\ last.op = "set_auto_empty" /\ last.command = "off" /\ last.raised = "ApiError"
  /\ state[RecDevice]["auto_empty_enabled"] = Some(TRUE)
  /\ err_count[RecDevice] = 1

\* ------------------------------------------------------------------------
\* Claims checked under SpecLife
\* ------------------------------------------------------------------------

\* C2: every write that changes a field calls each attached observer
\* exactly once with the field's name, the snapshot holding the new value
\* when the observer is called: the fan-out of a changing write runs to its
\* end, misses no observer that is attached, and every observer called finds
\* the written value stored.
C2_EachObserverOnce ==
  fan.changed => (fan.ended = "done" /\ fan.missed = {} /\ fan.fresh)

\* C4: subscribe of the first observer calls SubscriptionClient.subscribe
\* once and starts one poll task; subscribe of a further observer does
\* neither.
C4_FirstAttachStartsBoth ==
  done.op = "subscribe" =>
    IF done.first THEN done.sc_calls = 1 /\ done.started = 1
    ELSE done.sc_calls = 0 /\ done.started = 0

\* C5: when unsubscribe of the only remaining observer returns, the polling
\* flag is clear and the entity's record is gone from the registry; a
\* message for the device that arrives while it is detached invokes no
\* handler and stores no field.
C5_LastDetachSilences ==
  /\ (done.op = "unsubscribe" /\ done.last) => (~done.flag /\ ~done.record)
  /\ (heard.cb = "on_message" /\ heard.quiet) => (heard.invoked = {} /\ ~heard.wrote)

\* An event for RecDevice on a matching topic with a sound payload was
\* handled after the detach of RecDevice's last observer, the connection
\* kept up by the other device.
C5_Witness ==
  /\ done.op = "unsubscribe" /\ done.last /\ done.dev = RecDevice /\ done.raised = "none"
  /\ heard.cb = "on_message" /\ heard.quiet
  /\ TOPIC_RE_match(heard.msg.topic).matched
  /\ json_loads(heard.msg.payload).ok
  /\ "body" \in DOMAIN json_loads(heard.msg.payload).value

\* The message is one that _on_message is to drop.
Malformed(msg) ==
  \/ ~TOPIC_RE_match(msg.topic).matched
  \/ ~json_loads(msg.payload).ok
  \/ "body" \notin DOMAIN json_loads(msg.payload).value

\* C7: a message whose topic does not match, or whose payload is not JSON
\* or has no body, is dropped: no exception leaves _on_message, no handler
\* is invoked, no field is stored.
C7_MalformedDropped ==
  (heard.cb = "on_message" /\ Malformed(heard.msg)) =>
    (heard.raised = "none" /\ heard.invoked = {} /\ ~heard.wrote)

\* C8: once the detach of the last observer has returned and no observer is
\* attached again, no force_refresh starts.
C8_NoCycleAfterDetach == ~polled.detached

\* C9: at most one broker client exists, and with no subscribe or
\* unsubscribe call in progress a client object exists exactly when the
\* registry is non-empty.
C9_ClientIffSubscribers ==
  /\ Cardinality(LiveClients) <= 1
  /\ (\A t \in Callers : caller[t].pc = "idle") =>
       ((client # NoClient) <=> (sc_subscribers # {}))

\* C10: when the on-connect routine has run after a successful connect or
\* reconnect, the filter of every device with a record is issued on the new
\* session, and with an empty registry the routine ends without an
\* exception.
C10_FiltersReissued ==
  (heard.cb = "on_connect" /\ heard.rc = 0) =>
    (heard.covered /\ (heard.empty => heard.raised = "none"))

\* C11: a failure to establish the broker connection during
\* SubscriptionClient.subscribe is not raised to the caller of
\* SubscriptionClient.subscribe or of DeebotEntity.subscribe: every subscribe
\* call returns without an exception.
C11_ConnectFailureContained == done.op = "subscribe" => done.raised = "none"

\* C13: on every entity with no attach or detach in progress, the observer
\* set is non-empty exactly when the polling flag is set and exactly when
\* the entity's record is in the registry.
C13_ObserversFlagRecord ==
  \A d \in Devices :
    entity_lock[d] = Free =>
      /\ (subscribers[d] # {}) <=> should_poll[d]
      /\ (subscribers[d] # {}) <=> (d \in sc_subscribers)

\* C14: unsubscribe with a handler that is not registered leaves the
\* observer set, the polling flag, the registry and the connection as they
\* were, and the call is over with that step.
C14_UnknownHandlerHarmless ==
  [][\A t \in Callers, d \in Devices, h \in Handlers :
       (h \notin subscribers[d] /\ EntityUnsubscribe(t, d, h)) =>
         /\ UNCHANGED <<subscribers, should_poll, sc_subscribers, client, mqtt>>
         /\ caller'[t].pc = "idle" /\ entity_lock'[d] = Free]_vars

\* unsubscribe of a handler that is not registered has raised KeyError on an
\* entity that has another observer attached, polls and has its record.
C14_Witness ==
  /\ done.op = "unsubscribe" /\ done.raised = "KeyError"
  /\ subscribers[done.dev] # {} /\ done.h \notin subscribers[done.dev]
  /\ should_poll[done.dev] /\ done.dev \in sc_subscribers /\ client # NoClient

\* C12: a message invokes only the handler registered for the device its
\* topic addresses, and no handler when that device has no record.
C12_OnlyAddressedDevice ==
  heard.cb = "on_message" =>
    /\ heard.invoked \subseteq {TopicDevice(heard.msg.topic)}
    /\ ~heard.known => heard.invoked = {}

\* With every device registered, a message for RecDevice has invoked
\* RecDevice's handler and no other.
C12_Witness ==
  /\ heard.cb = "on_message" /\ heard.invoked = {RecDevice} /\ heard.known
  /\ sc_subscribers = Devices

\* The threads that have begun a write to entity d's snapshot and are not
\* through with it and its notifications: the network thread inside the
\* handler (0), and the poll tasks inside exc_command or handle_command (by
\* index).
Writers(d) ==
  (IF net.pc = "handler" /\ net.dev = d THEN {0} ELSE {})
  \cup {i \in DOMAIN tasks[d] : tasks[d][i].pc = "writes"}

\* C15: at most one thread at a time is inside a snapshot-writing step of
\* an entity, and at most one thread at a time is changing the registry.
C15_MutationsExclusive ==
  /\ \A d \in Devices : Cardinality(Writers(d)) <= 1
  /\ Cardinality({t \in Callers : caller[t].pc = "disconnect"}) <= 1

\* C23 (as claimed): at every moment every entity has at most one poll
\* task alive.
C23_OnePollTask == \A d \in Devices : Len(tasks[d]) <= 1

\* The attach of entity d's first observer has failed and nothing was
\* called on d since: SubscriptionClient.subscribe raised after the handler
\* was added, so d has an observer, no call in progress and does not poll.
AttachFailed(d) == entity_lock[d] = Free /\ subscribers[d] # {} /\ ~should_poll[d]

\* C24 (as claimed): DeebotEntity.subscribe on an entity whose attach has
\* failed goes on to SubscriptionClient.subscribe, where the connection is
\* attempted anew.
C24_RetryConnects ==
  [][\A t \in Callers, d \in Devices, h \in Handlers :
       (AttachFailed(d) /\ EntitySubscribe(t, d, h)) => caller'[t].pc = "subscribe"]_vars

\* C25 (as claimed): every filter issued on a session of a client object
\* is the device-scoped filter of a device; nothing broader is ever issued.
C25_OnlyDeviceFilters ==
  \A c \in DOMAIN mqtt :
    mqtt[c].filters \subseteq {DeviceFilter(DeviceInfo(d)) : d \in Devices}

\* C31 (as claimed): no attach or detach call and no broker callback ends
\* with the AttributeError of an attribute access on _client = None.
C31_ClientNeverNull ==
  done.raised # "AttributeError" /\ heard.raised # "AttributeError"

\* C32 (as claimed): while a thread is inside the fan-out of a write over
\* an entity's observers, the observer set is the set the iteration began
\* with; and while _on_message or _on_connect iterates the registry, the
\* registry is as it was when the iteration began.
C32_NoChangeWhileIterated ==
  /\ net.pc = "handler" =>
       /\ subscribers[net.dev] = net.frame.at_store
       /\ Cardinality(sc_subscribers) = net.used
  /\ \A d \in Devices : \A i \in DOMAIN tasks[d] :
       tasks[d][i].pc = "writes" => subscribers[d] = tasks[d][i].frame.at_store
  /\ net.pc = "on_connect_loop" =>
       (Cardinality(sc_subscribers) = net.used /\ net.visited \subseteq sc_subscribers)

\* ------------------------------------------------------------------------
\* Claims checked under SpecPoll
\* ------------------------------------------------------------------------

\* The poll task of entity d is inside force_refresh; is about to evaluate
\* its loop condition.
InCycle(d) == tasks[d] # <<>> /\ tasks[d][1].pc \in {"api", "apply", "writes"}
AtLoop(d) == tasks[d] # <<>> /\ tasks[d][1].pc = "loop"

\* C18: however force_refresh ends, the poll task lives on and comes back
\* to its loop condition; there, while the polling flag stays set, it goes
\* on to a further cycle; and a poll task exits only with the flag clear.
C18_PollTaskSurvives ==
  /\ \A d \in Devices : InCycle(d) ~> AtLoop(d)
  /\ \A d \in Devices :
       (AtLoop(d) /\ should_poll[d] /\ budget.polls < budget.cycles)
         ~> (~AtLoop(d) \/ ~should_poll[d] \/ budget.polls >= budget.cycles)
  /\ [][\A d \in Devices : Len(tasks'[d]) < Len(tasks[d]) => ~should_poll[d]]_vars

\* After a cycle whose request failed with ApiError, the poll task of
\* RecDevice has begun a further cycle.
C18_Witness ==
  /\ err_count[RecDevice] = 1
  /\ should_poll[RecDevice]
  /\ tasks[RecDevice] # <<>> /\ tasks[RecDevice][1].pc = "cycle"
  /\ budget.polls = 2

\* C19: what ApiClient.exc_command returns has the shape force_refresh
\* reads: when a request of the poll cycle has succeeded, handle_command is
\* reached with resp['body'] and resp['header'] and applies the reply.
C19_ReplyApplied ==
  \A d \in Devices : \A i \in DOMAIN tasks[d] :
    tasks[d][i].pc = "apply" =>
      force_refresh_apply(Requests[tasks[d][i].req], tasks[d][i].rv).raised = "none"

\* The ways command execution fails: an ApiError reply, and an exception of
\* the HTTP relay (PortalClient.do_post).
Failures == {"ApiError", "OtherError"}

\* C22 (as claimed): when the last two command executions of RecDevice's
\* poll task have failed, in whichever way (each failure ends its cycle, so
\* they are the failures of two consecutive cycles), and the task is back
\* at its loop, is_online is false, and the poll task is alive unless
\* polling was stopped.
C22_FailuresShowOffline ==
  (/\ Len(exc_hist) = 2 /\ exc_hist[1] \in Failures /\ exc_hist[2] \in Failures
   /\ \A i \in DOMAIN tasks[RecDevice] : tasks[RecDevice][i].pc \in {"loop", "cycle"})
    => /\ state[RecDevice]["is_online"] = Some(FALSE)
       /\ should_poll[RecDevice] => tasks[RecDevice] # <<>>

\* C30: once the polling flag of an entity is clear (its last observer has
\* detached; no observer attaches again), the entity's poll task eventually
\* exits.
C30_PollTaskExits ==
  \A d \in Devices : ~should_poll[d] ~> (tasks[d] = <<>>)

\* RecDevice's poll task has run a cycle, the last observer has detached,
\* and the task has exited.
C30_Witness ==
  /\ Detached(RecDevice) /\ ~should_poll[RecDevice]
  /\ polled.dev = RecDevice /\ ~polled.detached
  /\ tasks[RecDevice] = <<>>

\* ------------------------------------------------------------------------
\* Claims checked under SpecAuth
\* ------------------------------------------------------------------------

\* The condition under which authenticate is to log in: no cached
\* credentials, or force, or cached credentials that expired before `at`.
LoginDue(pre, force, at) ==
  \/ pre = None
  \/ force
  \/ pre[1].expires_at < at

\* The threads inside the login part of authenticate.
LoggingIn == {t \in AuthThreads : auth[t].pc \in {"login", "callback"}}

\* C27: authenticate logs in exactly when there are no cached credentials,
\* force is set or the cached credentials have expired; without a login it
\* returns the cached credentials and leaves them as they were; a login
\* that succeeds calls on_credentials_changed once, with the new
\* credentials; and no two threads are logging in at the same time.
C27_LoginIffNeeded ==
  LET c == auth_done.last IN
  /\ c.login # "never" =>
       /\ (c.login # "none") <=> LoginDue(c.pre, c.force, c.at)
       /\ c.login = "none" =>
            (c.returned = c.pre /\ c.post = c.pre /\ c.callbacks = <<>> /\ c.raised = "none")
       /\ c.login = "ok" =>
            (c.callbacks = <<c.post>> /\ c.post # None /\ c.post # c.pre)
  /\ \A t \in LoggingIn : LoginDue(auth[t].pre, auth[t].force, auth[t].at)
  /\ Cardinality(LoggingIn) <= 1

\* A call without force has logged in because the cached credentials had
\* expired, while another thread's call waits for the lock.
C27_Witness ==
  /\ auth_done.last.login = "ok" /\ ~auth_done.last.force
  /\ auth_done.last.pre # None /\ auth_done.last.raised = "none"
  /\ \E t \in AuthThreads : auth[t].pc = "lock"

\* C28: when the login of an authenticate call has failed, the caller has
\* the login's exception, the credentials are as they were before the
\* call, on_credentials_changed was not called, and the lock is held only
\* by a thread that is inside authenticate's login part.
C28_FailedLoginLeavesCache ==
  /\ auth_done.last.login = "failed" =>
       /\ auth_done.last.raised \in LoginOutcomes \ {"ok"}
       /\ auth_done.last.post = auth_done.last.pre
       /\ auth_done.last.callbacks = <<>>
  /\ IF LoggingIn = {} THEN auth_lock = Free ELSE LoggingIn = {auth_lock}

\* A login to renew cached credentials has failed; the credentials are
\* still there, the lock is free and another thread's call is about to
\* take it.
C28_Witness ==
  /\ auth_done.last.login = "failed" /\ auth_done.last.pre # None
  /\ credentials = auth_done.last.pre
  /\ auth_lock = Free
  /\ \E t \in AuthThreads : auth[t].pc = "lock"

\* ------------------------------------------------------------------------
\* Claims checked under SpecLock
\* ------------------------------------------------------------------------

\* The locks in the claimed order: 1 the entity's, 2 SubscriptionClient's,
\* 3 the Authenticator's.
Held(t) ==
  (IF \E d \in Devices : entity_lock[d] = t THEN {1} ELSE {})
    \cup (IF sc_lock = t THEN {2} ELSE {})
    \cup (IF auth_lock = AsAuthHolder(t) THEN {3} ELSE {})

Wanted(t) ==
  CASE caller[t].pc = "entity?" -> 1
    [] caller[t].pc = "sc?" -> 2
    [] caller[t].pc = "auth?" -> 3
    [] OTHER -> 0

\* Caller t, or the thread u of a direct authenticate call, has a step to
\* take: it is not waiting, or the lock it waits for is free.
CallerCanStep(t) ==
  \/ caller[t].pc \in {"login", "connect"}
  \/ caller[t].pc = "entity?" /\ entity_lock[caller[t].dev] = Free
  \/ caller[t].pc = "sc?" /\ sc_lock = Free
  \/ caller[t].pc = "auth?" /\ auth_lock = Free

RequestCanStep(u) ==
  \/ auth[u].pc \in {"login", "callback"}
  \/ auth[u].pc = "lock" /\ auth_lock = Free

\* C33: a thread that requests a lock holds only locks earlier in the order
\* entity, subscription client, authenticator; and whenever a call is under
\* way some thread can take a step, so no set of calls waits for each other.
C33_LockOrderNoDeadlock ==
  /\ \A t \in Callers : \A k \in Held(t) : Wanted(t) # 0 => k < Wanted(t)
  /\ ((\E t \in Callers : caller[t].pc # "idle") \/ (\E u \in AuthThreads : auth[u].pc # "idle"))
       => ((\E t \in Callers : CallerCanStep(t)) \/ (\E u \in AuthThreads : RequestCanStep(u)))

\* C33 witness: one attach call is logging in with all three locks held while
\* another call waits for the subscription client's lock holding its entity's
\* lock, and a direct authenticate call waits for the Authenticator's lock.
C33_Witness ==
  /\ \E t \in Callers : caller[t].pc = "login" /\ Held(t) = {1, 2, 3}
  /\ \E t \in Callers : caller[t].pc = "sc?" /\ Held(t) = {1}
  /\ \E u \in AuthThreads : auth[u].pc = "lock"

\* ------------------------------------------------------------------------
\* Claims checked under SpecSet
\* ------------------------------------------------------------------------

\* C34: the amount set_water_level(w) sends is decoded by the onWaterInfo
\* map to w and the speed set_vacuum_speed(s) sends is decoded by the
\* onSpeed map to s, for every w and s; so a report of the value that was
\* sent is decoded without error and stores the value that was asked for.
C34_SetThenReportRoundTrip ==
  /\ \A w \in DOMAIN water_level_map :
       /\ water_level_map[w] \in DOMAIN water_flow_map_info
       /\ water_flow_map_info[water_level_map[w]] = w
  /\ \A sp \in DOMAIN speed_map :
       /\ speed_map[sp] \in DOMAIN speed_map_in
       /\ speed_map_in[speed_map[sp]] = sp
  /\ last.op = "report" =>
       /\ last.raised = "none"
       /\ last.command = "onWaterInfo" => state[RecDevice]["water_level"] = Some(last.asked)
       /\ last.command = "onSpeed" => state[RecDevice]["vacuum_speed"] = Some(last.asked)

\* set_vacuum_speed(QUIET) has sent speed 1000 and the device's onSpeed
\* report of 1000 has stored QUIET.
C34_Witness ==
  /\ last.op = "report" /\ last.command = "onSpeed"
  /\ last.asked = "QUIET" /\ last.data.speed = 1000
  /\ state[RecDevice]["vacuum_speed"] = Some("QUIET")

====
